---- MODULE Spec2Model ----
\* Verification model of the bedrock crates of stormogulen/toolbox:
\*   packed_bits (bit_ops, PackedBitsContainer, PackedBits), mtf (write_mtf,
\*   read_mtf, read_string) and mtf::dynamic (DynamicContainer).
\* Bytes are integers 0..255, slices are sequences (index 1 is Rust index 0).
EXTENDS Integers, Sequences, FiniteSets, TLC

\* ---------------------------------------------------------------------------
\* Bounds of the exploration
\* ---------------------------------------------------------------------------
BufLen == 3          \* bytes in a bit_ops test buffer
MaxWidth == 10       \* largest bit_width given to set_bits / get_bits
MaxN == 3            \* largest container width N explored
MaxCap == 3          \* largest argument of with_capacity
MaxLen == 3          \* most push calls on one container
MaxTypes == 2        \* most type definitions in one blob
MaxFields == 2       \* most fields in one type definition
MaxIndex == 3        \* largest struct index given to field
MaxChain == 2        \* most calls chained on one FieldHandle
MaxPad == 4          \* most bytes before and after a magic inside a data segment
MaxStrs == 3         \* most strings given to build_string_table
MaxStrLen == 2       \* most bytes in one such string
MaxMaskOps == 2      \* most set_mask / clear_mask / toggle_mask calls on one container
MaxData == 5         \* most bytes given to merkle_root
MaxChunk == 3        \* largest chunk_size given to merkle_root
MaxElems == 2        \* most elements given to save
MaxBytes == 4        \* most bytes in a slice given to the chunked parsers
MaxCalls == 7        \* most calls of next on one iterator

\* ---------------------------------------------------------------------------
\* State
\* ---------------------------------------------------------------------------
VARIABLES
    \* bit_ops machine
    slice,        \* the buffer set_bits / get_bits work on
    slicePre,     \* the buffer before the last set_bits
    bitCall,      \* arguments of the last set_bits call
    bitPhase,     \* "start" | "set" | "got"
    bitGot        \* value returned by get_bits after the set

VARIABLES
    \* PackedBitsContainer<N> machine
    N,            \* the const generic bit width of the container
    storage,      \* PackedBitsContainer.storage (in-memory Container<u8>)
    len,          \* PackedBitsContainer.len
    pbAlive,      \* FALSE once an operation has panicked (or no container)
    pbResult,     \* outcome of the last operation: "Ok" | "Panic"
    pbOp,         \* the last operation and its arguments
    pbPrev,       \* storage and len before the last operation
    pushed,       \* values given to push so far that fit in N bits
    onlyPush,     \* TRUE while push is the only operation applied so far
    restored,     \* what the last from_storage returned
    pbOrigin,     \* how the container was made: "new" | "from_storage" | ...
    pbBuf,        \* the buffer the container was opened from with from_storage
    afterClear    \* "no" | "yes": clear was called and only push since | "past"

VARIABLES
    \* PackedBits<N> machine (packed_bits.rs; its width is N as well)
    pkData,       \* PackedBits.data
    pkLen,        \* PackedBits.len
    pkAlive,      \* TRUE when the specification runs a PackedBits
    pkResult,     \* outcome of the last push: "Ok" | "ValueOverflow"
    pkOp,         \* the last operation and its arguments
    pkPrev        \* data and len before the last operation

VARIABLES
    \* MTF blob machine (mtf/src/lib.rs)
    mtfTypes,     \* the &[TypeDef] given to write_mtf
    mtfStrings,   \* the string table bytes given to write_mtf
    mtfBlob,      \* the bytes write_mtf produced, as later cut or overwritten
    mtfPhase,     \* "idle" | "start" | "written" | "read"
    mtfPristine,  \* TRUE while mtfBlob is exactly what write_mtf produced
    mtfRead       \* what read_mtf(mtfBlob) returned

VARIABLES
    \* DynamicContainer machine (mtf/src/dynamic.rs)
    dynData,      \* DynamicContainer.data
    dynDef,       \* type_def, strings, struct_size and field_map of the container
    dynCall,      \* the last field call: index, field name, target type T
    dynRes,       \* what the last field call returned
    dynHandle,    \* the FieldHandle the last field_mut returned, and its use
    dynPre,       \* DynamicContainer.data when that field_mut was called
    dynAlive,     \* FALSE once a call on the handle has panicked
    fileData,     \* the data segment given to write_slice_with_mtf
    fileBlob,     \* the metadata blob given to write_slice_with_mtf
    fileBytes     \* the bytes of the file write_slice_with_mtf wrote

VARIABLES
    \* string table machine (mtf/src/lib.rs build_string_table / read_string)
    stList,       \* the &[&str] given to build_string_table
    stTable,      \* the table build_string_table returned
    stOffsets,    \* the offset map build_string_table returned
    stPhase,      \* "idle" | "start" | "built" | "read"
    stKey,        \* the string last looked up
    stRead        \* what read_string(stTable, stOffsets[stKey]) returned

VARIABLES
    \* FlagsContainer<N> machine (flags.rs), on top of the container machine
    fcOps         \* number of set_mask / clear_mask / toggle_mask calls so far

VARIABLES
    \* merkle_root machine (save/src/merkle.rs)
    mkData,       \* the data given to merkle_root
    mkChunk,      \* the chunk_size given to merkle_root
    mkPhase,      \* "idle" | "start" | "done"
    mkRoot        \* what merkle_root returned

VARIABLES
    \* save / load machine (save/src/save.rs)
    svT,          \* size_of::<T>() of the element type given to save
    svElems,      \* the elements given to save, each as its bytes
    svImage,      \* the bytes save wrote: header fields, root field, payload
    svClean,      \* TRUE while svImage is exactly what save wrote
    svPhase,      \* "idle" | "start" | "saved" | "loaded"
    svLoadT,      \* size_of::<T>() of the element type given to load
    svLoaded      \* what load returned

VARIABLES
    \* FixedPointContainerPacked<N, F> machine (fixed_point packed_container.rs),
    \* on top of the PackedBits<N> machine
    fpRaws,       \* FixedSmall.raw of the values pushed so far
    fpGot         \* the last get: its index and what it returned

VARIABLES
    \* chunked parser machine (packed_data/src/iter.rs)
    itKind,       \* "idle" | "try_parse" (TryParseWithIter) | "fixed" (FixedSizeParseIter)
    itBytes,      \* the slice iterated over
    itChunk,      \* chunk_size, or T::SIZE
    itParser,     \* the parser closure, or T::parse: "ok" | "picky"
    itPos,        \* the iterator's pos field
    itItems,      \* the items next has yielded so far, in order
    itCalls,      \* number of calls of next so far
    itNones       \* number of those calls that returned None

bitVars == <<slice, slicePre, bitCall, bitPhase, bitGot>>
pbVars == <<N, storage, len, pbAlive, pbResult, pbOp, pbPrev, pushed,
            onlyPush, restored, pbOrigin, pbBuf, afterClear>>
pkVars == <<pkData, pkLen, pkAlive, pkResult, pkOp, pkPrev>>
mtfVars == <<mtfTypes, mtfStrings, mtfBlob, mtfPhase, mtfPristine, mtfRead>>
dynVars == <<dynData, dynDef, dynCall, dynRes, dynHandle, dynPre, dynAlive,
             fileData, fileBlob, fileBytes>>
stVars == <<stList, stTable, stOffsets, stPhase, stKey, stRead>>
\* the machines added after the first five
fcVars == <<fcOps>>
mkVars == <<mkData, mkChunk, mkPhase, mkRoot>>
svVars == <<svT, svElems, svImage, svClean, svPhase, svLoadT, svLoaded>>
fpVars == <<fpRaws, fpGot>>
itVars == <<itKind, itBytes, itChunk, itParser, itPos, itItems, itCalls, itNones>>
moreVars == <<stVars, fcVars, mkVars, svVars, fpVars, itVars>>
vars == <<slice, slicePre, bitCall, bitPhase, bitGot,
          N, storage, len, pbAlive, pbResult, pbOp, pbPrev, pushed,
          onlyPush, restored, pbOrigin, pbBuf, afterClear,
          pkData, pkLen, pkAlive, pkResult, pkOp, pkPrev,
          mtfTypes, mtfStrings, mtfBlob, mtfPhase, mtfPristine, mtfRead,
          dynData, dynDef, dynCall, dynRes, dynHandle, dynPre, dynAlive,
          fileData, fileBlob, fileBytes,
          stList, stTable, stOffsets, stPhase, stKey, stRead,
          fcOps,
          mkData, mkChunk, mkPhase, mkRoot,
          svT, svElems, svImage, svClean, svPhase, svLoadT, svLoaded,
          fpRaws, fpGot,
          itKind, itBytes, itChunk, itParser, itPos, itItems, itCalls, itNones>>

\* the variables of the machines other than the one an action belongs to
notBitVars == <<pbVars, pkVars, mtfVars, dynVars, moreVars>>
notPbVars == <<bitVars, pkVars, mtfVars, dynVars, moreVars>>
notPkVars == <<bitVars, storage, len, pbAlive, pbResult, pbOp, pbPrev, pushed,
               onlyPush, restored, pbOrigin, pbBuf, afterClear, mtfVars, dynVars,
               moreVars>>
notMtfVars == <<bitVars, pbVars, pkVars, dynVars, moreVars>>
notDynVars == <<bitVars, pbVars, pkVars, mtfVars, moreVars>>
firstVars == <<bitVars, pbVars, pkVars, mtfVars, dynVars>>
notStVars == <<firstVars, fcVars, mkVars, svVars, fpVars, itVars>>
notMkVars == <<firstVars, stVars, fcVars, svVars, fpVars, itVars>>
notSvVars == <<firstVars, stVars, fcVars, mkVars, fpVars, itVars>>
notFpVars == <<bitVars, pbVars, mtfVars, dynVars, stVars, fcVars, mkVars, svVars, itVars>>
notItVars == <<firstVars, stVars, fcVars, mkVars, svVars, fpVars>>

\* ---------------------------------------------------------------------------
\* Integer helpers (u8 / u32 / u64 arithmetic on naturals)
\* ---------------------------------------------------------------------------
\* (x >> i) & 1
BitOf(x, i) == (x \div (2 ^ i)) % 2

\* byte | (1 << k)
OrBit(byte, k) == IF BitOf(byte, k) = 1 THEN byte ELSE byte + 2 ^ k

\* byte & !(1 << k)
ClearBit(byte, k) == IF BitOf(byte, k) = 1 THEN byte - 2 ^ k ELSE byte

\* ---------------------------------------------------------------------------
\* packed_bits/src/bit_ops.rs
\* ---------------------------------------------------------------------------
\* The loop of set_bits from iteration i on.  Indexing slice[byte] past the end
\* panics; the bits written before the panic stay written.
RECURSIVE set_bits_loop(_, _, _, _, _)
set_bits_loop(s, bit_offset, bit_width, masked, i) ==
    IF i >= bit_width THEN [slice |-> s, panic |-> FALSE]
    ELSE LET bit == BitOf(masked, i)
             pos == bit_offset + i
             byte == pos \div 8
             bit_in_byte == pos % 8
         IN IF byte >= Len(s) THEN [slice |-> s, panic |-> TRUE]
            ELSE set_bits_loop(
                   [s EXCEPT ![byte + 1] =
                        IF bit = 1 THEN OrBit(@, bit_in_byte)
                        ELSE ClearBit(@, bit_in_byte)],
                   bit_offset, bit_width, masked, i + 1)

\* set_bits that only ever sets bits, as the |= loop it replaced did
RECURSIVE set_bits_or_loop(_, _, _, _, _)
set_bits_or_loop(s, bit_offset, bit_width, masked, i) ==
    IF i >= bit_width THEN [slice |-> s, panic |-> FALSE]
    ELSE LET pos == bit_offset + i
             byte == pos \div 8
         IN IF byte >= Len(s) THEN [slice |-> s, panic |-> TRUE]
            ELSE set_bits_or_loop(
                   [s EXCEPT ![byte + 1] =
                        IF BitOf(masked, i) = 1 THEN OrBit(@, pos % 8) ELSE @],
                   bit_offset, bit_width, masked, i + 1)

set_bits_or_only(s, bit_offset, bit_width, value) ==
    set_bits_or_loop(s, bit_offset, bit_width, value % (2 ^ bit_width), 0)

\* set_bits whose loop runs over 0..=bit_width
set_bits_wide(s, bit_offset, bit_width, value) ==
    set_bits_loop(s, bit_offset, bit_width + 1, value % (2 ^ bit_width), 0)

set_bits(s, bit_offset, bit_width, value) ==
    LET masked == value % (2 ^ bit_width)
    IN set_bits_loop(s, bit_offset, bit_width, masked, 0)

RECURSIVE get_bits_loop(_, _, _, _, _)
get_bits_loop(s, bit_offset, bit_width, value, i) ==
    IF i >= bit_width THEN [value |-> value, panic |-> FALSE]
    ELSE LET pos == bit_offset + i
             byte == pos \div 8
             bit_in_byte == pos % 8
         IN IF byte >= Len(s) THEN [value |-> value, panic |-> TRUE]
            ELSE LET bit == BitOf(s[byte + 1], bit_in_byte)
                 IN get_bits_loop(s, bit_offset, bit_width,
                                  value + bit * (2 ^ i), i + 1)

get_bits(s, bit_offset, bit_width) == get_bits_loop(s, bit_offset, bit_width, 0, 0)

\* ---------------------------------------------------------------------------
\* bit_ops machine: one set_bits on an arbitrary buffer, then one get_bits
\* ---------------------------------------------------------------------------
\* Byte contents the buffers are drawn from: all bits clear, all bits set.
BytePatterns == {0, 255}

\* Values handed to set_bits for width w: extremes, single bits, alternating
\* bits, and values with bits above bit w-1.
ValuesFor(w) ==
    LET top == 2 ^ w
    IN {0, 1, top - 1, top \div 2, (top - 1) \div 3, top, top + 1, 3 * top - 1}

NoCall == [bit_offset |-> 0, bit_width |-> 0, value |-> 0]

\* the bit_ops machine when a specification does not use it
BitsIdle ==
    /\ slice = <<>>
    /\ slicePre = <<>>
    /\ bitCall = NoCall
    /\ bitPhase = "idle"
    /\ bitGot = 0

BitsStart ==
    /\ slice \in [1..BufLen -> BytePatterns]
    /\ slicePre = slice
    /\ bitCall = NoCall
    /\ bitPhase = "start"
    /\ bitGot = 0

\* set_bits(&mut slice, o, w, v) within the precondition o + w <= 8 * len
SetBits(o, w, v) ==
    /\ bitPhase = "start"
    /\ o + w <= 8 * Len(slice)
    /\ slicePre' = slice
    /\ slice' = set_bits(slice, o, w, v).slice
    /\ bitCall' = [bit_offset |-> o, bit_width |-> w, value |-> v]
    /\ bitPhase' = "set"
    /\ UNCHANGED bitGot
    /\ UNCHANGED notBitVars

\* get_bits(&slice, o, w) with the offset and width of the set
GetBits ==
    /\ bitPhase = "set"
    /\ bitGot' = get_bits(slice, bitCall.bit_offset, bitCall.bit_width).value
    /\ bitPhase' = "got"
    /\ UNCHANGED <<slice, slicePre, bitCall>>
    /\ UNCHANGED notBitVars

\* ---------------------------------------------------------------------------
\* packed_bits/src/container.rs
\* ---------------------------------------------------------------------------
MAGIC == <<80, 75, 66, 84>>      \* b"PKBT"
HEADER_SIZE == 12

\* u32::to_le_bytes
to_le_bytes(x) ==
    <<x % 256, (x \div 256) % 256, (x \div 65536) % 256, (x \div 16777216) % 256>>

\* u32::from_le_bytes
from_le_bytes(b) == b[1] + 256 * b[2] + 65536 * b[3] + 16777216 * b[4]

\* vec![0u8; n]
Zeros(n) == [i \in 1..n |-> 0]

\* the values given to push and set for width n: both ends of the range, their
\* neighbours, and the first value that does not fit
ValuesOfWidth(n) ==
    {v \in {0, 1, (2 ^ n) - 2, (2 ^ n) - 1, 2 ^ n} : v >= 0}

\* a.div_ceil(8)
div_ceil8(a) == (a + 7) \div 8

validate_n(n) == n \in 1..32

\* write_header: magic, N and len into bytes 0..12 (callers pass >= 12 bytes)
write_header(st, n, l) ==
    [i \in 1..Len(st) |->
        IF i <= 4 THEN MAGIC[i]
        ELSE IF i <= 8 THEN to_le_bytes(n)[i - 4]
        ELSE IF i <= 12 THEN to_le_bytes(l)[i - 8]
        ELSE st[i]]

\* update_len_in_header that leaves the header as it is
update_len_in_header_stale(st, l) == st

\* update_len_in_header: len into bytes 8..12
update_len_in_header(st, l) ==
    [i \in 1..Len(st) |-> IF i \in 9..12 THEN to_le_bytes(l)[i - 8] ELSE st[i]]

new_in_memory(n) ==
    [storage |-> write_header(Zeros(HEADER_SIZE), n, 0), len |-> 0]

with_capacity(n, capacity) ==
    LET data_bytes == div_ceil8(capacity * n)
        total_bytes == HEADER_SIZE + data_bytes
    IN [storage |-> write_header(Zeros(total_bytes), n, 0), len |-> 0]

NoContainer == [tag |-> "None", storage |-> <<>>, len |-> 0, expected |-> 0, found |-> 0]

\* from_storage that compares the stored width before the magic
from_storage_width_first(n, st) ==
    IF ~validate_n(n) THEN [NoContainer EXCEPT !.tag = "InvalidBitWidth"]
    ELSE IF Len(st) < HEADER_SIZE THEN [NoContainer EXCEPT !.tag = "StorageTooSmall"]
    ELSE LET stored_n == from_le_bytes(SubSeq(st, 5, 8))
         IN IF stored_n # n
            THEN [NoContainer EXCEPT !.tag = "InvalidN", !.expected = n, !.found = stored_n]
            ELSE IF SubSeq(st, 1, 4) # MAGIC
            THEN [NoContainer EXCEPT !.tag = "InvalidMagic"]
            ELSE [NoContainer EXCEPT !.tag = "Ok", !.storage = st,
                                     !.len = from_le_bytes(SubSeq(st, 9, 12))]

from_storage(n, st) ==
    IF ~validate_n(n) THEN [NoContainer EXCEPT !.tag = "InvalidBitWidth"]
    ELSE IF Len(st) < HEADER_SIZE THEN [NoContainer EXCEPT !.tag = "StorageTooSmall"]
    ELSE IF SubSeq(st, 1, 4) # MAGIC THEN [NoContainer EXCEPT !.tag = "InvalidMagic"]
    ELSE LET stored_n == from_le_bytes(SubSeq(st, 5, 8))
         IN IF stored_n # n
            THEN [NoContainer EXCEPT !.tag = "InvalidN", !.expected = n, !.found = stored_n]
            ELSE [NoContainer EXCEPT !.tag = "Ok", !.storage = st,
                                     !.len = from_le_bytes(SubSeq(st, 9, 12))]

\* ensure_capacity: append zero bytes until HEADER_SIZE + ceil(total_bits / 8)
\* ensure_capacity that resizes the storage to the bytes required
ensure_capacity_exact(st, total_bits) ==
    LET required_bytes == HEADER_SIZE + div_ceil8(total_bits)
        current_len == Len(st)
    IN IF current_len < required_bytes
       THEN st \o Zeros(required_bytes - current_len)
       ELSE SubSeq(st, 1, required_bytes)

ensure_capacity(st, total_bits) ==
    LET required_bytes == HEADER_SIZE + div_ceil8(total_bits)
        current_len == Len(st)
    IN IF current_len < required_bytes
       THEN st \o Zeros(required_bytes - current_len)
       ELSE st

data_bit_offset_static(n, index) == HEADER_SIZE * 8 + index * n

\* capacity(): data_bytes = storage.len().saturating_sub(HEADER_SIZE)
capacity(n, st) ==
    LET data_bytes == IF Len(st) >= HEADER_SIZE THEN Len(st) - HEADER_SIZE ELSE 0
    IN (data_bytes * 8) \div n

max_val(n) == IF n = 32 THEN (2 ^ 32) - 1 ELSE (2 ^ n) - 1

\* push that grows the storage before it checks the value
push_assert_late(n, st, l, value) ==
    LET bit_pos == l * n
        grown == ensure_capacity(st, bit_pos + n)
    IN IF ~(value <= max_val(n)) THEN [storage |-> grown, len |-> l, result |-> "Panic"]
       ELSE LET w == set_bits(grown, data_bit_offset_static(n, bit_pos), n, value)
            IN IF w.panic THEN [storage |-> w.slice, len |-> l, result |-> "Panic"]
               ELSE [storage |-> update_len_in_header(w.slice, l + 1),
                     len |-> l + 1, result |-> "Ok"]

\* push: the assertion, then ensure_capacity, set_bits at
\* data_bit_offset_static(bit_pos) with bit_pos = len * N, then len += 1 and the
\* header update.  A panic leaves what was written before it.
push(n, st, l, value) ==
    IF ~(value <= max_val(n)) THEN [storage |-> st, len |-> l, result |-> "Panic"]
    ELSE LET bit_pos == l * n
             grown == ensure_capacity(st, bit_pos + n)
             bit_offset == data_bit_offset_static(n, bit_pos)
             w == set_bits(grown, bit_offset, n, value)
         IN IF w.panic THEN [storage |-> w.slice, len |-> l, result |-> "Panic"]
            ELSE [storage |-> update_len_in_header(w.slice, l + 1),
                  len |-> l + 1, result |-> "Ok"]

\* get: None past len, else get_bits at HEADER_SIZE * 8 + index * N
get(n, st, l, index) ==
    IF index >= l THEN [tag |-> "None", value |-> 0]
    ELSE LET bit_pos == index * n
             raw == get_bits(st, HEADER_SIZE * 8 + bit_pos, n)
         IN IF raw.panic THEN [tag |-> "Panic", value |-> 0]
            ELSE [tag |-> "Some", value |-> raw.value]

\* set: the two assertions, then set_bits at data_bit_offset_static(bit_pos)
\* with bit_pos = index * N
set(n, st, l, index, value) ==
    IF ~(index < l) THEN [storage |-> st, len |-> l, result |-> "Panic"]
    ELSE IF ~(value <= max_val(n)) THEN [storage |-> st, len |-> l, result |-> "Panic"]
    ELSE LET bit_pos == index * n
             bit_offset == data_bit_offset_static(n, bit_pos)
             w == set_bits(st, bit_offset, n, value)
         IN [storage |-> w.slice, len |-> l,
             result |-> IF w.panic THEN "Panic" ELSE "Ok"]

Some(v) == [tag |-> "Some", value |-> v]
None == [tag |-> "None", value |-> 0]

\* ---------------------------------------------------------------------------
\* PackedBitsContainer machine
\* ---------------------------------------------------------------------------
NoOp == [name |-> "new", index |-> 0, value |-> 0]

\* the container machine when a specification does not use it
PbIdle ==
    /\ storage = <<>>
    /\ len = 0
    /\ pbAlive = FALSE
    /\ pbResult = "Ok"
    /\ pbOp = NoOp
    /\ pbPrev = [storage |-> <<>>, len |-> 0]
    /\ pushed = <<>>
    /\ onlyPush = TRUE
    /\ restored = NoContainer
    /\ pbOrigin = "none"
    /\ pbBuf = <<>>
    /\ afterClear = "no"

\* a container as new_in_memory or with_capacity returns it
PbStart ==
    /\ \/ /\ storage = new_in_memory(N).storage
          /\ len = new_in_memory(N).len
          /\ pbOp = NoOp
       \/ \E cap \in 0..MaxCap :
             /\ storage = with_capacity(N, cap).storage
             /\ len = with_capacity(N, cap).len
             /\ pbOp = [name |-> "with_capacity", index |-> cap, value |-> 0]
    /\ pbPrev = [storage |-> storage, len |-> len]
    /\ pbAlive = TRUE
    /\ pbResult = "Ok"
    /\ pushed = <<>>
    /\ onlyPush = TRUE
    /\ restored = NoContainer
    /\ pbOrigin = "new"
    /\ pbBuf = <<>>
    /\ afterClear = "no"

\* no container yet: the program is about to call from_storage on a buffer
PbUnopened ==
    /\ storage = <<>>
    /\ len = 0
    /\ pbAlive = FALSE
    /\ pbResult = "Ok"
    /\ pbOp = NoOp
    /\ pbPrev = [storage |-> <<>>, len |-> 0]
    /\ pushed = <<>>
    /\ onlyPush = FALSE
    /\ restored = NoContainer
    /\ pbOrigin = "unopened"
    /\ pbBuf = <<>>
    /\ afterClear = "no"

\* the buffers from_storage::<n> is given: a 12-byte header with a right or
\* wrong magic and width, a count with the data bytes it needs or without
\* them, and what is left of such a buffer when it is cut short
Buffers(n) ==
    LET body == { to_le_bytes(0), to_le_bytes(1), to_le_bytes(1) \o <<255>>,
                  to_le_bytes(MaxLen + 1) }
        whole == { m \o to_le_bytes(w) \o cd :
                     m \in {MAGIC, <<80, 75, 66, 85>>, <<0, 0, 0, 0>>},
                     w \in {n, n + 1, 0},
                     cd \in body }
    IN whole \cup { SubSeq(b, 1, k) : b \in whole, k \in {0, 4, 11} }

\* let pb = PackedBitsContainer::<N>::from_storage(Container::from_slice(buf))
Open(buf) ==
    /\ pbOrigin = "unopened"
    /\ LET r == from_storage(N, buf)
       IN /\ restored' = r
          /\ storage' = r.storage
          /\ len' = r.len
          /\ pbAlive' = (r.tag = "Ok")
          /\ pbOrigin' = IF r.tag = "Ok" THEN "from_storage" ELSE "failed"
    /\ pbBuf' = buf
    /\ pbOp' = [name |-> "open", index |-> N, value |-> 0]
    /\ pbResult' = "Ok"
    /\ UNCHANGED <<N, pbPrev, pushed, onlyPush, afterClear>>
    /\ UNCHANGED notPbVars

\* clear: len = 0, a storage of HEADER_SIZE zero bytes, update_len_in_header
clear(n, st, l) ==
    [storage |-> update_len_in_header(Zeros(HEADER_SIZE), 0), len |-> 0,
     result |-> "Ok"]

\* pb.clear(), once in the life of a container
Clear ==
    /\ pbAlive
    /\ afterClear = "no"
    /\ LET r == clear(N, storage, len)
       IN /\ storage' = r.storage
          /\ len' = r.len
          /\ pbResult' = r.result
    /\ pbOp' = [name |-> "clear", index |-> 0, value |-> 0]
    /\ pbPrev' = [storage |-> storage, len |-> len]
    /\ pushed' = <<>>
    /\ onlyPush' = FALSE
    /\ afterClear' = "yes"
    /\ restored' = NoContainer
    /\ UNCHANGED <<N, pbAlive, pbOrigin, pbBuf>>
    /\ UNCHANGED notPbVars

Push(value) ==
    /\ pbAlive
    /\ Len(pushed) < MaxLen
    /\ LET r == push(N, storage, len, value)
       IN /\ storage' = r.storage
          /\ len' = r.len
          /\ pbResult' = r.result
          /\ pbAlive' = (r.result = "Ok")
    /\ pbOp' = [name |-> "push", index |-> len, value |-> value]
    /\ pbPrev' = [storage |-> storage, len |-> len]
    /\ pushed' = IF value <= max_val(N) THEN Append(pushed, value) ELSE pushed
    /\ restored' = NoContainer
    /\ UNCHANGED <<N, onlyPush, pbOrigin, pbBuf, afterClear>>
    /\ UNCHANGED notPbVars

Set(index, value) ==
    /\ pbAlive
    /\ LET r == set(N, storage, len, index, value)
       IN /\ storage' = r.storage
          /\ len' = r.len
          /\ pbResult' = r.result
          /\ pbAlive' = (r.result = "Ok")
    /\ pbOp' = [name |-> "set", index |-> index, value |-> value]
    /\ pbPrev' = [storage |-> storage, len |-> len]
    /\ onlyPush' = FALSE
    /\ afterClear' = IF afterClear = "no" THEN "no" ELSE "past"
    /\ restored' = NoContainer
    /\ UNCHANGED <<N, pushed, pbOrigin, pbBuf>>
    /\ UNCHANGED notPbVars

\* storage().as_slice().to_vec(), Container::from_slice, from_storage::<M>
FromStorage(M) ==
    /\ pbAlive
    /\ restored' = from_storage(M, storage)
    /\ pbOp' = [name |-> "from_storage", index |-> M, value |-> 0]
    /\ pbPrev' = [storage |-> storage, len |-> len]
    /\ pbResult' = "Ok"
    /\ UNCHANGED <<N, storage, len, pbAlive, pushed, onlyPush, pbOrigin, pbBuf,
                   afterClear>>
    /\ UNCHANGED notPbVars

\* ---------------------------------------------------------------------------
\* packed_bits/src/flags.rs: FlagsContainer<N> around the PackedBitsContainer<N>
\* ---------------------------------------------------------------------------
\* a | b, a & !b and a ^ b on u32
RECURSIVE bit_or(_, _)
bit_or(a, b) ==
    IF a = 0 THEN b
    ELSE IF b = 0 THEN a
    ELSE (IF a % 2 = 1 \/ b % 2 = 1 THEN 1 ELSE 0) + 2 * bit_or(a \div 2, b \div 2)

RECURSIVE bit_and_not(_, _)
bit_and_not(a, b) ==
    IF a = 0 THEN 0
    ELSE (IF a % 2 = 1 /\ b % 2 = 0 THEN 1 ELSE 0)
           + 2 * bit_and_not(a \div 2, b \div 2)

RECURSIVE bit_xor(_, _)
bit_xor(a, b) ==
    IF a = 0 THEN b
    ELSE IF b = 0 THEN a
    ELSE (IF a % 2 # b % 2 THEN 1 ELSE 0) + 2 * bit_xor(a \div 2, b \div 2)

\* the new value set_mask, clear_mask and toggle_mask compute from val
mask_value(name, val, mask) ==
    IF name = "set_mask" THEN bit_or(val, mask)
    ELSE IF name = "clear_mask" THEN bit_and_not(val, mask)
    ELSE bit_xor(val, mask)

\* set_mask / clear_mask / toggle_mask: bits.get(index), then bits.set with
\* the new value, or Err(StorageTooSmall) when get returns None
mask_op(name, n, st, l, index, mask) ==
    LET val == get(n, st, l, index)
    IN IF val.tag = "Panic" THEN [storage |-> st, len |-> l, result |-> "Panic"]
       ELSE IF val.tag = "None"
       THEN [storage |-> st, len |-> l, result |-> "StorageTooSmall"]
       ELSE set(n, st, l, index, mask_value(name, val.value, mask))

MaskOps == {"set_mask", "clear_mask", "toggle_mask"}

\* masks of one flag, of all N flags, of none, and of a bit past the N flags
Masks(n) == {0, 1, 2 ^ (n - 1), (2 ^ n) - 1, 2 ^ n}

\* fc.set_mask(index, mask), fc.clear_mask(index, mask), fc.toggle_mask(index, mask)
MaskOp(name, index, mask) ==
    /\ pbAlive
    /\ fcOps < MaxMaskOps
    /\ fcOps' = fcOps + 1
    /\ LET r == mask_op(name, N, storage, len, index, mask)
       IN /\ storage' = r.storage
          /\ len' = r.len
          /\ pbResult' = r.result
          /\ pbAlive' = (r.result # "Panic")
    /\ pbOp' = [name |-> name, index |-> index, value |-> mask]
    /\ pbPrev' = [storage |-> storage, len |-> len]
    /\ onlyPush' = FALSE
    /\ restored' = NoContainer
    /\ UNCHANGED <<N, pushed, pbOrigin, pbBuf, afterClear>>
    /\ UNCHANGED <<bitVars, pkVars, mtfVars, dynVars, stVars, mkVars, svVars, fpVars,
                   itVars>>

\* ---------------------------------------------------------------------------
\* packed_bits/src/packed_bits.rs
\* ---------------------------------------------------------------------------
\* a | b on bytes, from bit k upwards
RECURSIVE ByteOrFrom(_, _, _)
ByteOrFrom(a, b, k) ==
    IF k > 7 THEN 0
    ELSE (IF BitOf(a, k) = 1 \/ BitOf(b, k) = 1 THEN 2 ^ k ELSE 0)
         + ByteOrFrom(a, b, k + 1)

ByteOr(a, b) == ByteOrFrom(a, b, 0)

\* Vec::resize(needed, 0) when the vector is shorter than needed
resize_to(data, needed) ==
    IF Len(data) < needed THEN data \o Zeros(needed - Len(data)) ELSE data

\* PackedBits::push
pk_push(n, data, l, value) ==
    LET max == max_val(n)
    IN IF value > max
       THEN [data |-> data, len |-> l, result |-> "ValueOverflow"]
       ELSE LET bit_pos == l * n
                byte_pos == bit_pos \div 8
                bit_offset == bit_pos % 8
                total_bits == bit_pos + n
                needed == (total_bits + 7) \div 8
                resized == resize_to(data, needed)
                v == value * (2 ^ bit_offset)
                bytes == (n + bit_offset + 7) \div 8
            IN [data |-> [j \in 1..Len(resized) |->
                            IF j - 1 >= byte_pos /\ j - 1 < byte_pos + bytes
                            THEN ByteOr(resized[j],
                                        (v \div (2 ^ ((j - 1 - byte_pos) * 8))) % 256)
                            ELSE resized[j]],
                len |-> l + 1, result |-> "Ok"]

\* the value the loop of PackedBits::get accumulates from byte i on
RECURSIVE pk_get_val(_, _, _, _)
pk_get_val(data, byte_pos, bytes, i) ==
    IF i >= bytes THEN 0
    ELSE (IF byte_pos + i < Len(data)
          THEN data[byte_pos + i + 1] * (2 ^ (i * 8)) ELSE 0)
         + pk_get_val(data, byte_pos, bytes, i + 1)

\* PackedBits::get
pk_get(n, data, l, index) ==
    IF index >= l THEN None
    ELSE LET bit_pos == index * n
             byte_pos == bit_pos \div 8
             bit_offset == bit_pos % 8
             bytes == (n + bit_offset + 7) \div 8
             val == pk_get_val(data, byte_pos, bytes, 0) \div (2 ^ bit_offset)
             mask == max_val(n)
         IN Some(val % (mask + 1))

\* the PackedBits machine when a specification does not use it
PkIdle ==
    /\ pkData = <<>>
    /\ pkLen = 0
    /\ pkAlive = FALSE
    /\ pkResult = "Ok"
    /\ pkOp = NoOp
    /\ pkPrev = [data |-> <<>>, len |-> 0]

\* PackedBits::new()
PkStart ==
    /\ pkData = <<>>
    /\ pkLen = 0
    /\ pkAlive = TRUE
    /\ pkResult = "Ok"
    /\ pkOp = NoOp
    /\ pkPrev = [data |-> <<>>, len |-> 0]

PkPush(value) ==
    /\ pkAlive
    /\ pkLen < MaxLen
    /\ LET r == pk_push(N, pkData, pkLen, value)
       IN /\ pkData' = r.data
          /\ pkLen' = r.len
          /\ pkResult' = r.result
    /\ pkOp' = [name |-> "push", index |-> pkLen, value |-> value]
    /\ pkPrev' = [data |-> pkData, len |-> pkLen]
    /\ UNCHANGED <<N, pkAlive>>
    /\ UNCHANGED notPkVars

\* ---------------------------------------------------------------------------
\* mtf/src/lib.rs
\* ---------------------------------------------------------------------------
MTF_MAGIC == <<77, 84, 70, 0>>   \* b"MTF\0"
MTF_VERSION == 1

\* write_fields with offset_bits and size_bits written in the other order
RECURSIVE write_fields_swapped(_)
write_fields_swapped(fields) ==
    IF fields = <<>> THEN <<>>
    ELSE LET f == Head(fields)
         IN to_le_bytes(f.name_offset) \o to_le_bytes(f.size_bits)
              \o to_le_bytes(f.offset_bits) \o write_fields_swapped(Tail(fields))

RECURSIVE write_fields(_)
write_fields(fields) ==
    IF fields = <<>> THEN <<>>
    ELSE LET f == Head(fields)
         IN to_le_bytes(f.name_offset) \o to_le_bytes(f.offset_bits)
              \o to_le_bytes(f.size_bits) \o write_fields(Tail(fields))

RECURSIVE write_types(_)
write_types(types) ==
    IF types = <<>> THEN <<>>
    ELSE LET t == Head(types)
         IN to_le_bytes(t.name_offset) \o to_le_bytes(t.size_bits)
              \o to_le_bytes(Len(t.fields)) \o write_fields(t.fields)
              \o write_types(Tail(types))

\* write_mtf into an empty Vec<u8>
write_mtf(types, strings) ==
    MTF_MAGIC \o to_le_bytes(MTF_VERSION) \o to_le_bytes(Len(types))
      \o write_types(types) \o to_le_bytes(Len(strings)) \o strings

\* u32::from_le_bytes(data[pos..pos + 4]), pos counted from 0
u32_at(data, pos) == from_le_bytes(SubSeq(data, pos + 1, pos + 4))

\* the inner loop of read_mtf: fcount more fields from pos on
RECURSIVE read_fields(_, _, _, _)
read_fields(data, pos, fcount, fields) ==
    IF fcount = 0 THEN [eof |-> FALSE, fields |-> fields, pos |-> pos]
    ELSE IF pos + 12 > Len(data) THEN [eof |-> TRUE, fields |-> fields, pos |-> pos]
    ELSE read_fields(data, pos + 12, fcount - 1,
                     Append(fields, [name_offset |-> u32_at(data, pos),
                                     offset_bits |-> u32_at(data, pos + 4),
                                     size_bits |-> u32_at(data, pos + 8)]))

\* the outer loop of read_mtf: count more types from pos on
RECURSIVE read_types(_, _, _, _)
read_types(data, pos, count, types) ==
    IF count = 0 THEN [eof |-> FALSE, types |-> types, pos |-> pos]
    ELSE IF pos + 12 > Len(data) THEN [eof |-> TRUE, types |-> types, pos |-> pos]
    ELSE LET name_offset == u32_at(data, pos)
             size_bits == u32_at(data, pos + 4)
             fcount == u32_at(data, pos + 8)
             fs == read_fields(data, pos + 12, fcount, <<>>)
         IN IF fs.eof THEN [eof |-> TRUE, types |-> types, pos |-> fs.pos]
            ELSE read_types(data, fs.pos, count - 1,
                            Append(types, [name_offset |-> name_offset,
                                           size_bits |-> size_bits,
                                           fields |-> fs.fields]))

MtfErr(tag) == [tag |-> tag, types |-> <<>>, strings |-> <<>>, version |-> 0]

\* read_mtf_body that hands out the part of the string table the input holds
read_mtf_body_partial(data) ==
    LET count == u32_at(data, 8)
        ts == read_types(data, 12, count, <<>>)
    IN IF ts.eof THEN MtfErr("UnexpectedEof")
       ELSE IF ts.pos + 4 > Len(data) THEN MtfErr("UnexpectedEof")
       ELSE [tag |-> "Ok", types |-> ts.types,
             strings |-> SubSeq(data, ts.pos + 5, Len(data)),
             version |-> MTF_VERSION]

\* read_mtf after the magic and version checks: counts, records, string table
read_mtf_body(data) ==
    LET count == u32_at(data, 8)
        ts == read_types(data, 12, count, <<>>)
    IN IF ts.eof THEN MtfErr("UnexpectedEof")
       ELSE IF ts.pos + 4 > Len(data) THEN MtfErr("UnexpectedEof")
       ELSE LET string_len == u32_at(data, ts.pos)
                pos == ts.pos + 4
            IN IF pos + string_len > Len(data)
               THEN MtfErr("UnexpectedEof")
               ELSE [tag |-> "Ok", types |-> ts.types,
                     strings |-> SubSeq(data, pos + 1, pos + string_len),
                     version |-> MTF_VERSION]

\* read_mtf that checks the version before the magic
read_mtf_version_first(data) ==
    IF Len(data) < 12 THEN MtfErr("UnexpectedEof")
    ELSE IF u32_at(data, 4) # MTF_VERSION
    THEN [MtfErr("UnsupportedVersion") EXCEPT !.version = u32_at(data, 4)]
    ELSE IF SubSeq(data, 1, 4) # MTF_MAGIC THEN MtfErr("InvalidMagic")
    ELSE read_mtf_body(data)

read_mtf(data) ==
    IF Len(data) < 12 THEN MtfErr("UnexpectedEof")
    ELSE IF SubSeq(data, 1, 4) # MTF_MAGIC THEN MtfErr("InvalidMagic")
    ELSE LET version == u32_at(data, 4)
         IN IF version # MTF_VERSION
            THEN [MtfErr("UnsupportedVersion") EXCEPT !.version = version]
            ELSE read_mtf_body(data)

\* ---------------------------------------------------------------------------
\* MTF blob machine: write_mtf, then cut or overwrite the bytes, then read_mtf
\* ---------------------------------------------------------------------------
\* sequences over S of length 0..n
SeqUpTo(S, n) == UNION {[1..k -> S] : k \in 0..n}

\* field number j of a type: the numbers of field 1 fit one byte, those of
\* the later fields need two, three and four bytes
FieldNo(j) ==
    [name_offset |-> 5 + 253 * (j - 1), offset_bits |-> 65539 * (j - 1),
     size_bits |-> 32 + 83886049 * (j - 1)]

Reverse(q) == [i \in 1..Len(q) |-> q[Len(q) + 1 - i]]

\* the field lists of length 0..MaxFields, in both orders
FieldLists ==
    LET firstK(k) == [j \in 1..k |-> FieldNo(j)]
    IN UNION { {firstK(k), Reverse(firstK(k))} : k \in 0..MaxFields }

TypePool ==
    { [name_offset |-> 0, size_bits |-> 64, fields |-> fs] : fs \in FieldLists }

\* "Test\0x\0y\0" and the empty table
StringTables == { <<84, 101, 115, 116, 0, 120, 0, 121, 0>>, <<>> }

MtfIdle ==
    /\ mtfTypes = <<>>
    /\ mtfStrings = <<>>
    /\ mtfBlob = <<>>
    /\ mtfPhase = "idle"
    /\ mtfPristine = FALSE
    /\ mtfRead = MtfErr("None")

MtfStart(typeLists) ==
    /\ mtfTypes \in typeLists
    /\ mtfStrings \in StringTables
    /\ mtfBlob = <<>>
    /\ mtfPhase = "start"
    /\ mtfPristine = FALSE
    /\ mtfRead = MtfErr("None")

WriteMtf ==
    /\ mtfPhase = "start"
    /\ mtfBlob' = write_mtf(mtfTypes, mtfStrings)
    /\ mtfPhase' = "written"
    /\ mtfPristine' = TRUE
    /\ UNCHANGED <<mtfTypes, mtfStrings, mtfRead>>
    /\ UNCHANGED notMtfVars

\* keep only the first k bytes of the blob as written
Truncate(k) ==
    /\ mtfPhase = "written"
    /\ mtfPristine
    /\ k < Len(mtfBlob)
    /\ mtfBlob' = SubSeq(mtfBlob, 1, k)
    /\ mtfPristine' = FALSE
    /\ UNCHANGED <<mtfTypes, mtfStrings, mtfPhase, mtfRead>>
    /\ UNCHANGED notMtfVars

\* overwrite the bytes from position pos (counted from 0) with bytes, as far as
\* the blob reaches
Overwrite(pos, bytes) ==
    /\ mtfPhase = "written"
    /\ mtfBlob' = [i \in 1..Len(mtfBlob) |->
                      IF i - pos \in 1..Len(bytes) THEN bytes[i - pos] ELSE mtfBlob[i]]
    /\ mtfBlob' # mtfBlob
    /\ mtfPristine' = FALSE
    /\ UNCHANGED <<mtfTypes, mtfStrings, mtfPhase, mtfRead>>
    /\ UNCHANGED notMtfVars

ReadMtf ==
    /\ mtfPhase = "written"
    /\ mtfRead' = read_mtf(mtfBlob)
    /\ mtfPhase' = "read"
    /\ UNCHANGED <<mtfTypes, mtfStrings, mtfBlob, mtfPristine>>
    /\ UNCHANGED notMtfVars

\* magic values other than MTF_MAGIC: "MTF\1", "PKBT", "mTF\0"
OtherMagics == { <<77, 84, 70, 1>>, <<80, 75, 66, 84>>, <<109, 84, 70, 0>> }

\* version values other than MTF_VERSION
OtherVersions == {0, 2, 257}

\* ---------------------------------------------------------------------------
\* mtf/src/lib.rs read_string and mtf/src/dynamic.rs
\* ---------------------------------------------------------------------------
\* std::str::from_utf8(bytes).is_ok(), for the bytes string tables hold here:
\* ASCII, and bytes from 128 up standing alone, which is never valid UTF-8
from_utf8_ok(bytes) == \A i \in 1..Len(bytes) : bytes[i] < 128

StrErr(tag) == [tag |-> tag, str |-> <<>>]

read_string(strings, offset) ==
    LET start == offset
    IN IF start >= Len(strings) THEN StrErr("InvalidStringOffset")
       ELSE LET remaining == SubSeq(strings, start + 1, Len(strings))
                zeros == {i \in 1..Len(remaining) : remaining[i] = 0}
            IN IF zeros = {} THEN StrErr("UnexpectedEof")
               ELSE LET end == (CHOOSE i \in zeros : \A j \in zeros : i <= j) - 1
                        bytes == SubSeq(remaining, 1, end)
                    IN IF from_utf8_ok(bytes) THEN [tag |-> "Ok", str |-> bytes]
                       ELSE StrErr("InvalidUtf8")

\* HashMap::insert
map_insert(map, key, val) ==
    [k \in DOMAIN map \cup {key} |-> IF k = key THEN val ELSE map[k]]

\* the loop of from_raw that fills field_map, from field number i on
RECURSIVE build_field_map(_, _, _, _)
build_field_map(fields, strings, i, map) ==
    IF i > Len(fields) THEN [tag |-> "Ok", map |-> map]
    ELSE LET name == read_string(strings, fields[i].name_offset)
         IN IF name.tag # "Ok" THEN [tag |-> name.tag, map |-> map]
            ELSE build_field_map(fields, strings, i + 1,
                                 map_insert(map, name.str, fields[i]))

EmptyMap == [k \in {} |-> 0]

NoType == [name_offset |-> 0, size_bits |-> 0, fields |-> <<>>]

DynErr(tag) ==
    [tag |-> tag, type_def |-> NoType, strings |-> <<>>, struct_size |-> 0,
     field_map |-> EmptyMap]

\* DynamicContainer::from_raw, all but the data field
from_raw(blob) ==
    LET r == read_mtf(blob)
    IN IF r.tag # "Ok" THEN DynErr(r.tag)
       ELSE IF r.types = <<>> THEN DynErr("UnexpectedEof")
       ELSE LET type_def == r.types[1]
                struct_size == div_ceil8(type_def.size_bits)
                m == build_field_map(type_def.fields, r.strings, 1, EmptyMap)
            IN IF m.tag # "Ok" THEN DynErr(m.tag)
               ELSE [tag |-> "Ok", type_def |-> type_def, strings |-> r.strings,
                     struct_size |-> struct_size, field_map |-> m.map]

\* DynamicContainer::type_name
type_name(def) == read_string(def.strings, def.type_def.name_offset)

\* DynamicContainer::len
dyn_len(data, def) ==
    IF def.struct_size = 0 THEN 0 ELSE Len(data) \div def.struct_size

NoField == [tag |-> "None", bytes |-> <<>>]

\* field without the comparison of the field's byte size with size_of::<T>():
\* bytemuck::from_bytes then panics on a slice of another size
field_no_size_check(data, def, index, field_name, T) ==
    IF index >= dyn_len(data, def) THEN NoField
    ELSE IF field_name \notin DOMAIN def.field_map THEN NoField
    ELSE LET f == def.field_map[field_name]
             field_size == div_ceil8(f.size_bits)
             field_offset == f.offset_bits \div 8
             field_start == index * def.struct_size + field_offset
             field_end == field_start + field_size
         IN IF field_offset % T.align # 0 THEN NoField
            ELSE IF field_end > Len(data) THEN NoField
            ELSE IF field_size # T.size \/ field_start % T.align # 0
            THEN [tag |-> "Panic", bytes |-> <<>>]
            ELSE [tag |-> "Some", bytes |-> SubSeq(data, field_start + 1, field_end)]

\* field that takes the stride of the array from the field instead of the
\* struct
field_packed_stride(data, def, index, field_name, T) ==
    IF index >= dyn_len(data, def) THEN NoField
    ELSE IF field_name \notin DOMAIN def.field_map THEN NoField
    ELSE LET f == def.field_map[field_name]
             field_size == div_ceil8(f.size_bits)
             field_offset == f.offset_bits \div 8
             field_start == index * field_size + field_offset
             field_end == field_start + field_size
         IN IF field_size # T.size THEN NoField
            ELSE IF field_offset % T.align # 0 THEN NoField
            ELSE IF field_end > Len(data) THEN NoField
            ELSE IF field_start % T.align # 0 THEN [tag |-> "Panic", bytes |-> <<>>]
            ELSE [tag |-> "Some", bytes |-> SubSeq(data, field_start + 1, field_end)]

\* DynamicContainer::field::<T>, T given by size_of and align_of.  The value is
\* given as the bytes the returned reference covers.  bytemuck::from_bytes
\* panics when the slice does not start at a multiple of align_of::<T>(); the
\* Vec's own allocation is taken to be aligned for every T used.
field(data, def, index, field_name, T) ==
    IF index >= dyn_len(data, def) THEN NoField
    ELSE IF field_name \notin DOMAIN def.field_map THEN NoField
    ELSE LET f == def.field_map[field_name]
             field_size == div_ceil8(f.size_bits)
             field_offset == f.offset_bits \div 8
             struct_start == index * def.struct_size
             field_start == struct_start + field_offset
             field_end == field_start + field_size
         IN IF field_size # T.size THEN NoField
            ELSE IF field_offset % T.align # 0 THEN NoField
            ELSE IF field_end > Len(data) THEN NoField
            ELSE IF field_start % T.align # 0 THEN [tag |-> "Panic", bytes |-> <<>>]
            ELSE [tag |-> "Some", bytes |-> SubSeq(data, field_start + 1, field_end)]

\* write_slice_with_mtf: the data, the metadata size, the metadata
write_slice_with_mtf(raw, blob) == raw \o to_le_bytes(Len(blob)) \o blob

\* the scan of from_file that trusts the first magic it finds after byte 4
RECURSIVE from_file_first_magic(_, _)
from_file_first_magic(all_data, i) ==
    IF i >= Len(all_data) - 4
    THEN [tag |-> "InvalidMagic", data |-> <<>>, def |-> DynErr("InvalidMagic")]
    ELSE IF SubSeq(all_data, i + 1, i + 4) = MTF_MAGIC /\ i >= 4
    THEN LET def == from_raw(SubSeq(all_data, i + 1, Len(all_data)))
         IN [tag |-> def.tag,
             data |-> IF def.tag = "Ok" THEN SubSeq(all_data, 1, i - 4) ELSE <<>>,
             def |-> def]
    ELSE from_file_first_magic(all_data, i + 1)

\* the scan of from_file from position i on: the first magic with a size
\* field before it that reaches the end of the file
RECURSIVE from_file_scan(_, _)
from_file_scan(all_data, i) ==
    IF i >= Len(all_data) - 4
    THEN [tag |-> "InvalidMagic", data |-> <<>>, def |-> DynErr("InvalidMagic")]
    ELSE IF /\ SubSeq(all_data, i + 1, i + 4) = MTF_MAGIC
            /\ i >= 4
            /\ LET size_pos == i - 4
                   metadata_size == u32_at(all_data, size_pos)
               IN size_pos + 4 + metadata_size = Len(all_data)
    THEN LET def == from_raw(SubSeq(all_data, i + 1, Len(all_data)))
         IN [tag |-> def.tag,
             data |-> IF def.tag = "Ok" THEN SubSeq(all_data, 1, i - 4) ELSE <<>>,
             def |-> def]
    ELSE from_file_scan(all_data, i + 1)

\* DynamicContainer::from_file on a file holding all_data
from_file(all_data) ==
    IF Len(all_data) < 4
    THEN [tag |-> "UnexpectedEof", data |-> <<>>, def |-> DynErr("UnexpectedEof")]
    ELSE from_file_scan(all_data, 0)

NoPtr == [tag |-> "None", at |-> 0]

\* field_mut that points the handle at the start of the struct
field_mut_struct_start(data, def, index, field_name, T) ==
    IF index >= dyn_len(data, def) THEN NoPtr
    ELSE IF field_name \notin DOMAIN def.field_map THEN NoPtr
    ELSE LET f == def.field_map[field_name]
             field_size == div_ceil8(f.size_bits)
             field_offset == f.offset_bits \div 8
             struct_start == index * def.struct_size
             field_start == struct_start
             field_end == field_start + field_size
         IN IF field_size # T.size THEN NoPtr
            ELSE IF field_offset % T.align # 0 THEN NoPtr
            ELSE IF field_end > Len(data) THEN NoPtr
            ELSE [tag |-> "Some", at |-> field_start]

\* field_mut without the comparison of the field's byte size with
\* size_of::<T>()
field_mut_no_size_check(data, def, index, field_name, T) ==
    IF index >= dyn_len(data, def) THEN NoPtr
    ELSE IF field_name \notin DOMAIN def.field_map THEN NoPtr
    ELSE LET f == def.field_map[field_name]
             field_size == div_ceil8(f.size_bits)
             field_offset == f.offset_bits \div 8
             field_start == index * def.struct_size + field_offset
             field_end == field_start + field_size
         IN IF field_offset % T.align # 0 THEN NoPtr
            ELSE IF field_end > Len(data) THEN NoPtr
            ELSE [tag |-> "Some", at |-> field_start]

\* DynamicContainer::field_mut::<T>: FieldHandle.ptr, as the offset in data the
\* pointer points at.  The slice is cast to *mut T without an alignment check.
field_mut(data, def, index, field_name, T) ==
    IF index >= dyn_len(data, def) THEN NoPtr
    ELSE IF field_name \notin DOMAIN def.field_map THEN NoPtr
    ELSE LET f == def.field_map[field_name]
             field_size == div_ceil8(f.size_bits)
             field_offset == f.offset_bits \div 8
             struct_start == index * def.struct_size
             field_start == struct_start + field_offset
             field_end == field_start + field_size
         IN IF field_size # T.size THEN NoPtr
            ELSE IF field_offset % T.align # 0 THEN NoPtr
            ELSE IF field_end > Len(data) THEN NoPtr
            ELSE [tag |-> "Some", at |-> field_start]

\* v as T: the size_of::<T>() bytes of the unsigned integer v < 2^31
to_bytes_of(v, T) ==
    [k \in 1..T.size |-> IF k > 4 THEN 0 ELSE (v \div (256 ^ (k - 1))) % 256]

\* a + b on unsigned integers given by their bytes, with the carry out
RECURSIVE le_add(_, _, _)
le_add(a, b, carry) ==
    IF a = <<>> THEN [bytes |-> <<>>, carry |-> carry]
    ELSE LET sum == Head(a) + Head(b) + carry
             rest == le_add(Tail(a), Tail(b), sum \div 256)
         IN [bytes |-> <<sum % 256>> \o rest.bytes, carry |-> rest.carry]

\* a - b on unsigned integers given by their bytes, with the borrow out
RECURSIVE le_sub(_, _, _)
le_sub(a, b, borrow) ==
    IF a = <<>> THEN [bytes |-> <<>>, carry |-> borrow]
    ELSE LET diff == Head(a) - Head(b) - borrow
             rest == le_sub(Tail(a), Tail(b), IF diff < 0 THEN 1 ELSE 0)
         IN [bytes |-> <<(diff + 256) % 256>> \o rest.bytes, carry |-> rest.carry]

\* the bytes *p covers
ptr_read(ptr, data, T) == SubSeq(data, ptr.at + 1, ptr.at + T.size)

\* *p = bytes
ptr_write(ptr, data, bytes) ==
    [i \in 1..Len(data) |->
        IF i - ptr.at \in 1..Len(bytes) THEN bytes[i - ptr.at] ELSE data[i]]

\* the outcome of one FieldHandle call that stores r.bytes through p.  checks
\* is TRUE for a build with debug assertions and overflow checks: there a
\* misaligned p and an arithmetic overflow panic.  Without them the overflow
\* wraps and the misaligned access, undefined behaviour, is taken to go through
\* (the panic of the checked build stands for the trap it may cause).
ptr_store(ptr, data, T, r, checks) ==
    IF checks /\ ptr.at % T.align # 0 THEN [data |-> data, result |-> "Panic"]
    ELSE IF checks /\ r.carry # 0 THEN [data |-> data, result |-> "Panic"]
    ELSE [data |-> ptr_write(ptr, data, r.bytes), result |-> "Ok"]

\* FieldHandle::set
handle_set(ptr, data, T, v, checks) ==
    IF ptr.tag = "None" THEN [data |-> data, result |-> "Ok"]
    ELSE ptr_store(ptr, data, T, [bytes |-> to_bytes_of(v, T), carry |-> 0], checks)

\* FieldHandle::add
handle_add(ptr, data, T, v, checks) ==
    IF ptr.tag = "None" THEN [data |-> data, result |-> "Ok"]
    ELSE ptr_store(ptr, data, T,
                   le_add(ptr_read(ptr, data, T), to_bytes_of(v, T), 0), checks)

\* FieldHandle::sub
handle_sub(ptr, data, T, v, checks) ==
    IF ptr.tag = "None" THEN [data |-> data, result |-> "Ok"]
    ELSE ptr_store(ptr, data, T,
                   le_sub(ptr_read(ptr, data, T), to_bytes_of(v, T), 0), checks)

\* FieldHandle::is_some
handle_is_some(ptr) == ptr.tag = "Some"

\* FieldHandle::get, the value given as the bytes the reference covers
handle_get(ptr, data, T) ==
    IF ptr.tag = "None" THEN NoField
    ELSE [tag |-> "Some", bytes |-> ptr_read(ptr, data, T)]

\* the closures given to apply: |v| *v *= 2 and |v| *v = 0
Closures == {"double", "zero"}

\* what closure f leaves in *v
closure_result(f, bytes) ==
    IF f = "double" THEN le_add(bytes, bytes, 0)
    ELSE [bytes |-> [k \in 1..Len(bytes) |-> 0], carry |-> 0]

\* FieldHandle::apply: invoked tells whether f was called
handle_apply(ptr, data, T, f, checks) ==
    IF ptr.tag = "None" THEN [data |-> data, result |-> "Ok", invoked |-> FALSE]
    ELSE LET r == ptr_store(ptr, data, T,
                            closure_result(f, ptr_read(ptr, data, T)), checks)
         IN [data |-> r.data, result |-> r.result,
             invoked |-> ~(checks /\ ptr.at % T.align # 0)]

\* *field::<T>(..) for an unsigned integer T of at most 4 bytes: the integer a
\* reference made by bytemuck::from_bytes reads from its bytes.  The read is in
\* the byte order of the target; the crate supports little-endian targets.
RECURSIVE deref_uint(_)
deref_uint(bytes) ==
    IF bytes = <<>> THEN 0 ELSE Head(bytes) + 256 * deref_uint(Tail(bytes))

\* ---------------------------------------------------------------------------
\* DynamicContainer machine: from_raw on a written blob, then field calls
\* ---------------------------------------------------------------------------
\* "T\0x\0y\0z\0": T at 0, x at 2, y at 4, z at 6
DynStrings == <<84, 0, 120, 0, 121, 0, 122, 0>>

FX(off, size) == [name_offset |-> 2, offset_bits |-> off, size_bits |-> size]
FY(off, size) == [name_offset |-> 4, offset_bits |-> off, size_bits |-> size]
FZ(off, size) == [name_offset |-> 6, offset_bits |-> off, size_bits |-> size]

\* the descriptor of the repository's tests (two u32), one whose stride is not
\* a multiple of 4, one with fields at odd bit positions, one with a field
\* reaching past the struct, and one of size 0
DynTypePool ==
    { [name_offset |-> 0, size_bits |-> 64, fields |-> <<FX(0, 32), FY(32, 32)>>],
      [name_offset |-> 0, size_bits |-> 48, fields |-> <<FX(0, 32), FZ(16, 32), FY(32, 16)>>],
      [name_offset |-> 0, size_bits |-> 32, fields |-> <<FX(0, 32), FY(8, 9), FZ(20, 12)>>],
      [name_offset |-> 0, size_bits |-> 32, fields |-> <<FX(0, 8), FY(16, 32)>>],
      [name_offset |-> 0, size_bits |-> 0, fields |-> <<FX(0, 32)>>] }

\* lengths of the data buffer; its bytes are 1, 2, 3, ...
DynDataLens == {0, 8, 12, 13}

\* field names asked for: "x", "y", "z" and the unknown "q"
DynNames == { <<120>>, <<121>>, <<122>>, <<113>> }

\* size_of and align_of of u8, u16, u32, u64, [u8; 4], [u16; 2], [u8; 2]
PodTypes ==
    { [size |-> 1, align |-> 1], [size |-> 2, align |-> 2], [size |-> 4, align |-> 4],
      [size |-> 8, align |-> 8], [size |-> 4, align |-> 1], [size |-> 4, align |-> 2],
      [size |-> 2, align |-> 1] }

NoFieldCall == [made |-> FALSE, index |-> 0, name |-> <<>>, T |-> [size |-> 1, align |-> 1]]

\* no field_mut made yet.  ops lists the calls made on the handle, invoked
\* counts the closures apply has called.
NoHandle ==
    [made |-> FALSE, live |-> FALSE, ptr |-> NoPtr, index |-> 0, name |-> <<>>,
     T |-> [size |-> 1, align |-> 1], ops |-> <<>>, invoked |-> 0]

DynIdle ==
    /\ dynData = <<>>
    /\ dynDef = DynErr("None")
    /\ dynCall = NoFieldCall
    /\ dynRes = NoField
    /\ dynHandle = NoHandle
    /\ dynPre = <<>>
    /\ dynAlive = FALSE
    /\ fileData = <<>>
    /\ fileBlob = <<>>
    /\ fileBytes = <<>>

DynStart ==
    /\ \E n \in DynDataLens : dynData = [i \in 1..n |-> i]
    /\ \E t \in DynTypePool : dynDef = from_raw(write_mtf(<<t>>, DynStrings))
    /\ dynCall = NoFieldCall
    /\ dynRes = NoField
    /\ dynHandle = NoHandle
    /\ dynPre = dynData
    /\ dynAlive = TRUE
    /\ fileData = <<>>
    /\ fileBlob = <<>>
    /\ fileBytes = <<>>

\* container.field::<T>(index, name); the shared borrow ends the life of a
\* FieldHandle
Field(index, name, T) ==
    /\ dynDef.tag = "Ok"
    /\ dynAlive
    /\ dynRes' = field(dynData, dynDef, index, name, T)
    /\ dynCall' = [made |-> TRUE, index |-> index, name |-> name, T |-> T]
    /\ dynHandle' = [dynHandle EXCEPT !.live = FALSE]
    /\ UNCHANGED <<dynData, dynDef, dynPre, dynAlive, fileData, fileBlob, fileBytes>>
    /\ UNCHANGED notDynVars

\* the unsigned integer types among PodTypes, which have += and -=
IsInt(T) == T.size = T.align

\* container.field_mut::<T>(index, name), once per container
FieldMut(index, name, T) ==
    /\ dynDef.tag = "Ok"
    /\ dynAlive
    /\ ~dynHandle.made
    /\ dynHandle' = [made |-> TRUE, live |-> TRUE,
                     ptr |-> field_mut(dynData, dynDef, index, name, T),
                     index |-> index, name |-> name, T |-> T,
                     ops |-> <<>>, invoked |-> 0]
    /\ dynPre' = dynData
    /\ UNCHANGED <<dynData, dynDef, dynCall, dynRes, dynAlive>>
    /\ UNCHANGED <<fileData, fileBlob, fileBytes>>
    /\ UNCHANGED notDynVars

\* what a call on the live handle with outcome r leaves
HandleCalled(op, v, r, invoked) ==
    /\ dynData' = r.data
    /\ dynAlive' = (r.result = "Ok")
    /\ dynHandle' = [dynHandle EXCEPT
                        !.ops = Append(@, [op |-> op, v |-> v]),
                        !.invoked = @ + (IF invoked THEN 1 ELSE 0)]
    /\ UNCHANGED <<dynDef, dynCall, dynRes, dynPre, fileData, fileBlob, fileBytes>>
    /\ UNCHANGED notDynVars

HandleLive == dynAlive /\ dynHandle.live /\ Len(dynHandle.ops) < MaxChain

\* handle.set(v)
HandleSet(v, checks) ==
    /\ HandleLive
    /\ HandleCalled("set", v,
                    handle_set(dynHandle.ptr, dynData, dynHandle.T, v, checks), FALSE)

\* handle.add(v)
HandleAdd(v, checks) ==
    /\ HandleLive
    /\ IsInt(dynHandle.T)
    /\ HandleCalled("add", v,
                    handle_add(dynHandle.ptr, dynData, dynHandle.T, v, checks), FALSE)

\* handle.sub(v)
HandleSub(v, checks) ==
    /\ HandleLive
    /\ IsInt(dynHandle.T)
    /\ HandleCalled("sub", v,
                    handle_sub(dynHandle.ptr, dynData, dynHandle.T, v, checks), FALSE)

\* handle.apply(f)
HandleApply(f, checks) ==
    /\ HandleLive
    /\ IsInt(dynHandle.T)
    /\ LET r == handle_apply(dynHandle.ptr, dynData, dynHandle.T, f, checks)
       IN HandleCalled("apply", f, r, r.invoked)

\* ---------------------------------------------------------------------------
\* mtf/src/lib.rs build_string_table, and the machine that builds a table and
\* looks its strings up
\* ---------------------------------------------------------------------------
\* build_string_table that notes the offset after the string is appended
RECURSIVE build_string_table_offset_after(_, _, _, _)
build_string_table_offset_after(strings, i, table, offsets) ==
    IF i > Len(strings) THEN [table |-> table, offsets |-> offsets]
    ELSE LET s == strings[i]
             off == Len(table \o s)
         IN build_string_table_offset_after(strings, i + 1, (table \o s) \o <<0>>,
                                            map_insert(offsets, s, off))

\* the loop of build_string_table from string number i on
RECURSIVE build_string_table_loop(_, _, _, _)
build_string_table_loop(strings, i, table, offsets) ==
    IF i > Len(strings) THEN [table |-> table, offsets |-> offsets]
    ELSE LET s == strings[i]
             off == Len(table)
         IN build_string_table_loop(strings, i + 1, (table \o s) \o <<0>>,
                                    map_insert(offsets, s, off))

build_string_table(strings) == build_string_table_loop(strings, 1, <<>>, EmptyMap)

\* the NUL-free strings of at most MaxStrLen bytes over "x" and "y"
StrPool == SeqUpTo({120, 121}, MaxStrLen)

StIdle ==
    /\ stList = <<>>
    /\ stTable = <<>>
    /\ stOffsets = EmptyMap
    /\ stPhase = "idle"
    /\ stKey = <<>>
    /\ stRead = StrErr("None")

StStart ==
    /\ stList \in SeqUpTo(StrPool, MaxStrs)
    /\ stTable = <<>>
    /\ stOffsets = EmptyMap
    /\ stPhase = "start"
    /\ stKey = <<>>
    /\ stRead = StrErr("None")

BuildStringTable ==
    /\ stPhase = "start"
    /\ LET r == build_string_table(stList)
       IN /\ stTable' = r.table
          /\ stOffsets' = r.offsets
    /\ stPhase' = "built"
    /\ UNCHANGED <<stList, stKey, stRead>>
    /\ UNCHANGED notStVars

\* read_string(&table, offsets[s]) for string number i of the list
ReadString(i) ==
    /\ stPhase \in {"built", "read"}
    /\ i \in 1..Len(stList)
    /\ stKey' = stList[i]
    /\ stRead' = read_string(stTable, stOffsets[stList[i]])
    /\ stPhase' = "read"
    /\ UNCHANGED <<stList, stTable, stOffsets>>
    /\ UNCHANGED notStVars

\* no machine added after the first five runs
\* ---------------------------------------------------------------------------
\* save/src/merkle.rs.  A blake3 hash is modelled by the term it is the hash
\* of, written as a sequence of numbers that can be read back in one way only,
\* so that two hashes are equal exactly when their inputs are.
\* ---------------------------------------------------------------------------
\* blake3::Hash::from([0u8; 32])
ZeroHash == <<2>>

hash_leaf(bytes) == <<0, Len(bytes)>> \o bytes

hash_parent(left, right) == (<<1>> \o left) \o right

\* number of arrays level and level_len hold
Levels == 64

\* data.chunks(chunk_size)
RECURSIVE chunks(_, _)
chunks(data, chunk_size) ==
    IF data = <<>> THEN <<>>
    ELSE IF Len(data) <= chunk_size THEN <<data>>
    ELSE <<SubSeq(data, 1, chunk_size)>>
           \o chunks(SubSeq(data, chunk_size + 1, Len(data)), chunk_size)

\* the inner loop of merkle_root: carry h upwards from depth
RECURSIVE merkle_carry(_, _, _)
merkle_carry(lv, h, depth) ==
    IF lv.level_len[depth] = 0
    THEN [level |-> [lv.level EXCEPT ![depth] = h],
          level_len |-> [lv.level_len EXCEPT ![depth] = 1]]
    ELSE merkle_carry([level |-> lv.level,
                       level_len |-> [lv.level_len EXCEPT ![depth] = 0]],
                      hash_parent(lv.level[depth], h), depth + 1)

\* the leaf hashing loop of merkle_root over the chunks from number i on
RECURSIVE merkle_leaves(_, _, _)
merkle_leaves(cs, i, lv) ==
    IF i > Len(cs) THEN lv
    ELSE merkle_leaves(cs, i + 1, merkle_carry(lv, hash_leaf(cs[i]), 0))

\* the fold of merkle_root over the depths from depth on; root is <<>> for None
RECURSIVE merkle_fold(_, _, _)
merkle_fold(lv, depth, root) ==
    IF depth >= Levels THEN root
    ELSE merkle_fold(lv, depth + 1,
                     IF lv.level_len[depth] = 1
                     THEN IF root = <<>> THEN lv.level[depth]
                          ELSE hash_parent(lv.level[depth], root)
                     ELSE root)

merkle_root(data, chunk_size) ==
    IF ~(chunk_size > 0) THEN [tag |-> "Panic", hash |-> <<>>]
    ELSE LET lv == merkle_leaves(chunks(data, chunk_size), 1,
                                 [level |-> [d \in 0..(Levels - 1) |-> ZeroHash],
                                  level_len |-> [d \in 0..(Levels - 1) |-> 0]])
             root == merkle_fold(lv, 0, <<>>)
         IN [tag |-> "Ok",
             hash |-> IF root = <<>> THEN hash_leaf(<<>>) ELSE root]

MkIdle ==
    /\ mkData = <<>>
    /\ mkChunk = 0
    /\ mkPhase = "idle"
    /\ mkRoot = [tag |-> "None", hash |-> <<>>]

MkStart ==
    /\ mkData \in SeqUpTo({0, 1}, MaxData)
    /\ mkChunk \in 0..MaxChunk
    /\ mkPhase = "start"
    /\ mkRoot = [tag |-> "None", hash |-> <<>>]

MerkleRoot ==
    /\ mkPhase = "start"
    /\ mkRoot' = merkle_root(mkData, mkChunk)
    /\ mkPhase' = "done"
    /\ UNCHANGED <<mkData, mkChunk>>
    /\ UNCHANGED notMkVars

\* ---------------------------------------------------------------------------
\* save/src/save.rs
\* ---------------------------------------------------------------------------
SAVE_MAGIC == 1396790853   \* 0x53415645
SAVE_VERSION == 1
DEFAULT_CHUNK_SIZE == 4096

\* x.to_le_bytes() for a u16
to_le_bytes16(x) == <<x % 256, (x \div 256) % 256>>

\* cast_slice(data): the bytes of the elements one after the other
RECURSIVE cast_slice(_)
cast_slice(data) ==
    IF data = <<>> THEN <<>> ELSE Head(data) \o cast_slice(Tail(data))

\* cast_slice_mut read back as elements of size bytes each
RECURSIVE elements_of(_, _)
elements_of(bytes, size) ==
    IF bytes = <<>> THEN <<>>
    ELSE <<SubSeq(bytes, 1, size)>>
           \o elements_of(SubSeq(bytes, size + 1, Len(bytes)), size)

\* save::<T>: bytes_of(&header), of which head holds the 16 bytes of magic,
\* version, element_size, element_count and chunk_size and root the 32 bytes
\* of merkle_root, then the bytes of the elements
save(size, data) ==
    LET bytes == cast_slice(data)
        root == merkle_root(bytes, DEFAULT_CHUNK_SIZE)
    IN [head |-> to_le_bytes(SAVE_MAGIC) \o to_le_bytes16(SAVE_VERSION)
                   \o to_le_bytes16(size % 65536) \o to_le_bytes(Len(data))
                   \o to_le_bytes(DEFAULT_CHUNK_SIZE),
        root |-> root.hash,
        payload |-> bytes]

\* what load returns with tag; read is the number of payload bytes taken from
\* the reader
LoadResult(tag, data, read) == [tag |-> tag, data |-> data, read |-> read]

\* load that does not compare the root
load_unverified(size, image) ==
    LET magic == from_le_bytes(SubSeq(image.head, 1, 4))
        version == image.head[5] + 256 * image.head[6]
        element_size == image.head[7] + 256 * image.head[8]
        element_count == from_le_bytes(SubSeq(image.head, 9, 12))
    IN IF magic # SAVE_MAGIC THEN LoadResult("InvalidMagic", <<>>, 0)
       ELSE IF version # SAVE_VERSION THEN LoadResult("InvalidVersion", <<>>, 0)
       ELSE IF element_size # size THEN LoadResult("InvalidVersion", <<>>, 0)
       ELSE IF Len(image.payload) < element_count * size
       THEN LoadResult("Io", <<>>, Len(image.payload))
       ELSE LET bytes == SubSeq(image.payload, 1, element_count * size)
            IN LoadResult("Ok", elements_of(bytes, size), Len(bytes))

\* load::<T>: the header, the three checks, the payload, the root
load(size, image) ==
    LET magic == from_le_bytes(SubSeq(image.head, 1, 4))
        version == image.head[5] + 256 * image.head[6]
        element_size == image.head[7] + 256 * image.head[8]
        element_count == from_le_bytes(SubSeq(image.head, 9, 12))
        chunk_size == from_le_bytes(SubSeq(image.head, 13, 16))
    IN IF magic # SAVE_MAGIC THEN LoadResult("InvalidMagic", <<>>, 0)
       ELSE IF version # SAVE_VERSION THEN LoadResult("InvalidVersion", <<>>, 0)
       ELSE IF element_size # size THEN LoadResult("InvalidVersion", <<>>, 0)
       ELSE IF Len(image.payload) < element_count * size
       THEN LoadResult("Io", <<>>, Len(image.payload))
       ELSE LET bytes == SubSeq(image.payload, 1, element_count * size)
                root == merkle_root(bytes, chunk_size)
            IN IF root.tag = "Panic" THEN LoadResult("Panic", <<>>, Len(bytes))
               ELSE IF root.hash # image.root
               THEN LoadResult("HashMismatch", <<>>, Len(bytes))
               ELSE LoadResult("Ok", elements_of(bytes, size), Len(bytes))

\* sizes of the element types: u8, u16, u32 to save, and u64 besides to load
SaveSizes == {1, 2, 4}
LoadSizes == {1, 2, 4, 8}

\* the elements of a type of size bytes: all bytes zero, and the bytes 1, 2, ..
ElemPool(size) == { [k \in 1..size |-> 0], [k \in 1..size |-> k] }

NoImage == [head |-> <<>>, root |-> <<>>, payload |-> <<>>]

SvIdle ==
    /\ svT = 0
    /\ svElems = <<>>
    /\ svImage = NoImage
    /\ svClean = FALSE
    /\ svPhase = "idle"
    /\ svLoadT = 0
    /\ svLoaded = LoadResult("None", <<>>, 0)

SvStart ==
    /\ svT \in SaveSizes
    /\ svElems \in SeqUpTo(ElemPool(svT), MaxElems)
    /\ svImage = NoImage
    /\ svClean = FALSE
    /\ svPhase = "start"
    /\ svLoadT = 0
    /\ svLoaded = LoadResult("None", <<>>, 0)

Save ==
    /\ svPhase = "start"
    /\ svImage' = save(svT, svElems)
    /\ svClean' = TRUE
    /\ svPhase' = "saved"
    /\ UNCHANGED <<svT, svElems, svLoadT, svLoaded>>
    /\ UNCHANGED notSvVars

\* payload byte number i of the written image is replaced by another byte
Tamper(i, b) ==
    /\ svPhase = "saved"
    /\ svClean
    /\ i \in 1..Len(svImage.payload)
    /\ b # svImage.payload[i]
    /\ svImage' = [svImage EXCEPT !.payload[i] = b]
    /\ svClean' = FALSE
    /\ UNCHANGED <<svT, svElems, svPhase, svLoadT, svLoaded>>
    /\ UNCHANGED notSvVars

Load(size) ==
    /\ svPhase = "saved"
    /\ svLoadT' = size
    /\ svLoaded' = load(size, svImage)
    /\ svPhase' = "loaded"
    /\ UNCHANGED <<svT, svElems, svImage, svClean>>
    /\ UNCHANGED notSvVars

\* ---------------------------------------------------------------------------
\* fixed_point/src/container/packed_container.rs over packed_bits.rs, for all
\* widths up to 32.  A u32 is given by its 32 bits, bit 0 the lowest, and an
\* i32 by the integer it is.
\* ---------------------------------------------------------------------------
I32_MIN == (-2147483647) - 1

\* value.raw as u32
as_u32(raw) ==
    LET low == IF raw < 0 THEN raw - I32_MIN ELSE raw
    IN [k \in 0..31 |-> IF k = 31 THEN (IF raw < 0 THEN 1 ELSE 0)
                                  ELSE (low \div (2 ^ k)) % 2]

\* the sum of bits[k] * 2^k for k in from..30
RECURSIVE low_bits_value(_, _)
low_bits_value(bits, from) ==
    IF from > 30 THEN 0 ELSE bits[from] * (2 ^ from) + low_bits_value(bits, from + 1)

\* packed as i32
as_i32(bits) ==
    IF bits[31] = 1 THEN low_bits_value(bits, 0) + I32_MIN
    ELSE low_bits_value(bits, 0)

\* value & ((1u32 << n) - 1)
mask_low(bits, n) == [k \in 0..31 |-> IF k < n THEN bits[k] ELSE 0]

\* FixedPointContainerPacked::push, the value handed to PackedBits::push
packed_value(n, raw) ==
    IF n < 32 THEN mask_low(as_u32(raw), n) ELSE as_u32(raw)

\* ((v >> (i * 8)) & 0xFF) as u8 for v = (value as u64) << bit_offset
RECURSIVE shifted_byte(_, _, _, _)
shifted_byte(value, bit_offset, i, k) ==
    IF k > 7 THEN 0
    ELSE LET m == 8 * i + k - bit_offset
         IN (IF m \in 0..31 THEN value[m] * (2 ^ k) ELSE 0)
              + shifted_byte(value, bit_offset, i, k + 1)

\* PackedBits::push for a value given by its bits
pk_push_bits(n, data, l, value) ==
    IF n # 32 /\ \E k \in n..31 : value[k] = 1
    THEN [data |-> data, len |-> l, result |-> "ValueOverflow"]
    ELSE LET bit_pos == l * n
             byte_pos == bit_pos \div 8
             bit_offset == bit_pos % 8
             total_bits == bit_pos + n
             needed == (total_bits + 7) \div 8
             resized == resize_to(data, needed)
             bytes == (n + bit_offset + 7) \div 8
         IN [data |-> [j \in 1..Len(resized) |->
                         IF j - 1 >= byte_pos /\ j - 1 < byte_pos + bytes
                         THEN ByteOr(resized[j],
                                     shifted_byte(value, bit_offset, j - 1 - byte_pos, 0))
                         ELSE resized[j]],
             len |-> l + 1, result |-> "Ok"]

\* PackedBits::get with the value returned given by its bits: bit m of val is
\* bit m % 8 of data[byte_pos + m / 8]
pk_get_bits(n, data, l, index) ==
    IF index >= l THEN [tag |-> "None", bits |-> [k \in 0..31 |-> 0]]
    ELSE LET bit_pos == index * n
             byte_pos == bit_pos \div 8
             bit_offset == bit_pos % 8
             bytes == (n + bit_offset + 7) \div 8
             val(m) == IF m \div 8 < bytes /\ byte_pos + (m \div 8) < Len(data)
                       THEN BitOf(data[byte_pos + (m \div 8) + 1], m % 8)
                       ELSE 0
         IN [tag |-> "Some",
             bits |-> [k \in 0..31 |-> IF k < n THEN val(k + bit_offset) ELSE 0]]

\* FixedPointContainerPacked::get without the sign extension
fp_get_unsigned(n, data, l, index) ==
    LET packed == pk_get_bits(n, data, l, index)
    IN IF packed.tag = "None" THEN [tag |-> "None", raw |-> 0]
       ELSE [tag |-> "Some", raw |-> as_i32(packed.bits)]

\* FixedPointContainerPacked::get: (packed as i32) | (!0i32 << N) when N < 32
\* and bit N - 1 of packed is set
fp_get(n, data, l, index) ==
    LET packed == pk_get_bits(n, data, l, index)
    IN IF packed.tag = "None" THEN [tag |-> "None", raw |-> 0]
       ELSE IF n < 32 /\ packed.bits[n - 1] = 1
       THEN [tag |-> "Some",
             raw |-> as_i32([k \in 0..31 |-> IF k >= n THEN 1 ELSE packed.bits[k]])]
       ELSE [tag |-> "Some", raw |-> as_i32(packed.bits)]

\* widths of the fixed-point formats explored
FpWidths == {1, 2, 7, 8, 9, 16, 31, 32}

\* FixedSmall::<N, F>::MIN_INT and MAX_INT
MIN_INT(n) == IF n >= 32 THEN I32_MIN ELSE -(2 ^ (n - 1))
MAX_INT(n) == IF n >= 32 THEN 2147483647 ELSE (2 ^ (n - 1)) - 1

\* raw values pushed: the ends of the N-bit range, -1, 0, 1, and for N < 32
\* the first value past the range
FpRaws(n) ==
    {r \in {MIN_INT(n), -1, 0, 1, MAX_INT(n)} : r >= MIN_INT(n) /\ r <= MAX_INT(n)}
      \cup (IF n < 32 THEN {MAX_INT(n) + 1} ELSE {})

NoGet == [made |-> FALSE, index |-> 0, tag |-> "None", raw |-> 0]

FpIdle ==
    /\ fpRaws = <<>>
    /\ fpGot = NoGet

\* container.push(FixedSmall { raw })
FpPush(raw) ==
    /\ pkAlive
    /\ pkLen < MaxLen
    /\ LET r == pk_push_bits(N, pkData, pkLen, packed_value(N, raw))
       IN /\ pkData' = r.data
          /\ pkLen' = r.len
          /\ pkResult' = r.result
          /\ fpRaws' = IF r.result = "Ok" THEN Append(fpRaws, raw) ELSE fpRaws
    /\ pkOp' = [name |-> "push", index |-> pkLen, value |-> raw]
    /\ pkPrev' = [data |-> pkData, len |-> pkLen]
    /\ fpGot' = NoGet
    /\ UNCHANGED <<N, pkAlive>>
    /\ UNCHANGED notFpVars

\* container.get(index)
FpGet(index) ==
    /\ pkAlive
    /\ LET r == fp_get(N, pkData, pkLen, index)
       IN fpGot' = [made |-> TRUE, index |-> index, tag |-> r.tag, raw |-> r.raw]
    /\ UNCHANGED <<N, pkVars, fpRaws>>
    /\ UNCHANGED notFpVars

\* ---------------------------------------------------------------------------
\* packed_data/src/iter.rs: TryParseWithIter and FixedSizeParseIter
\* ---------------------------------------------------------------------------
\* the parsers: "ok" returns Ok of the chunk it was given, "picky" returns Err
\* for a chunk that starts with an even byte
parse(parser, chunk) ==
    IF parser = "picky" /\ chunk # <<>> /\ chunk[1] % 2 = 0
    THEN [tag |-> "Err", chunk |-> chunk]
    ELSE [tag |-> "Ok", chunk |-> chunk]

\* TryParseWithIter::next: the item it returns (tag "None" for None) and pos
try_parse_next(bytes, chunk_size, parser, pos) ==
    IF pos + chunk_size > Len(bytes)
    THEN [item |-> [tag |-> "None", chunk |-> <<>>], pos |-> pos]
    ELSE LET chunk == SubSeq(bytes, pos + 1, pos + chunk_size)
         IN [item |-> parse(parser, chunk), pos |-> pos + chunk_size]

\* FixedSizeParseIter::<T>::next with T::SIZE = size and T::parse = parser
fixed_size_next(bytes, size, parser, pos) ==
    IF pos + size > Len(bytes)
    THEN [item |-> [tag |-> "None", chunk |-> <<>>], pos |-> pos]
    ELSE LET chunk == SubSeq(bytes, pos + 1, pos + size)
         IN [item |-> parse(parser, chunk), pos |-> pos + size]

ItIdle ==
    /\ itKind = "idle"
    /\ itBytes = <<>>
    /\ itChunk = 0
    /\ itParser = "ok"
    /\ itPos = 0
    /\ itItems = <<>>
    /\ itCalls = 0
    /\ itNones = 0

\* bytes.try_parse(chunk_size, parser) or FixedSizeParseIter::<T>::new(bytes)
\* for the slice 1, 2, .., n
ItStart ==
    /\ itKind \in {"try_parse", "fixed"}
    /\ \E n \in 0..MaxBytes : itBytes = [i \in 1..n |-> i]
    /\ itChunk \in 0..(MaxBytes + 1)
    /\ itParser \in {"ok", "picky"}
    /\ itPos = 0
    /\ itItems = <<>>
    /\ itCalls = 0
    /\ itNones = 0

\* what a call of next that returned r leaves
ItCalled(r) ==
    /\ itPos' = r.pos
    /\ itItems' = IF r.item.tag = "None" THEN itItems ELSE Append(itItems, r.item)
    /\ itNones' = itNones + (IF r.item.tag = "None" THEN 1 ELSE 0)
    /\ itCalls' = itCalls + 1
    /\ UNCHANGED <<itKind, itBytes, itChunk, itParser>>
    /\ UNCHANGED notItVars

TryParseNext ==
    /\ itKind = "try_parse"
    /\ itCalls < MaxCalls
    /\ ItCalled(try_parse_next(itBytes, itChunk, itParser, itPos))

FixedSizeNext ==
    /\ itKind = "fixed"
    /\ itCalls < MaxCalls
    /\ ItCalled(fixed_size_next(itBytes, itChunk, itParser, itPos))

FcIdle == fcOps = 0

MoreIdle == StIdle /\ FcIdle /\ MkIdle /\ SvIdle /\ FpIdle /\ ItIdle

InitBits ==
    BitsStart /\ N = 0 /\ PbIdle /\ PkIdle /\ MtfIdle /\ DynIdle /\ MoreIdle

\* either a PackedBitsContainer<N> or a PackedBits<N>
InitPacked ==
    /\ BitsIdle
    /\ MtfIdle
    /\ DynIdle
    /\ MoreIdle
    /\ N \in 1..MaxN
    /\ \/ PbStart /\ PkIdle
       \/ PbUnopened /\ PkIdle
       \/ PbIdle /\ PkStart

NextPacked ==
    \/ \E buf \in Buffers(N) : Open(buf)
    \/ Clear
    \/ \E value \in ValuesOfWidth(N) : Push(value)
    \/ \E index \in 0..MaxLen, value \in ValuesOfWidth(N) : Set(index, value)
    \/ \E M \in 1..MaxN : FromStorage(M)
    \/ \E value \in ValuesOfWidth(N) : PkPush(value)

SpecPacked == InitPacked /\ [][NextPacked]_vars

\* write_mtf of a list of types, any prefix of the result, read_mtf
InitMtf ==
    /\ BitsIdle /\ N = 0 /\ PbIdle /\ PkIdle /\ DynIdle /\ MoreIdle
    /\ MtfStart(SeqUpTo(TypePool, MaxTypes))

NextMtf ==
    \/ WriteMtf
    \/ \E k \in 0..(12 + MaxTypes * (12 + 12 * MaxFields) + 4 + 9) : Truncate(k)
    \/ ReadMtf

SpecMtf == InitMtf /\ [][NextMtf]_vars

\* as SpecMtf for blobs of at most one type, with the magic and the version
\* overwritten
InitMtfHeader ==
    /\ BitsIdle /\ N = 0 /\ PbIdle /\ PkIdle /\ DynIdle /\ MoreIdle
    /\ MtfStart(SeqUpTo(TypePool, 1))

NextMtfHeader ==
    \/ WriteMtf
    \/ \E k \in 0..(12 + (12 + 12 * MaxFields) + 4 + 9) : Truncate(k)
    \/ \E m \in OtherMagics : Overwrite(0, m)
    \/ \E v \in OtherVersions : Overwrite(4, to_le_bytes(v))
    \/ ReadMtf

SpecMtfHeader == InitMtfHeader /\ [][NextMtfHeader]_vars

InitDyn ==
    /\ BitsIdle /\ N = 0 /\ PbIdle /\ PkIdle /\ MtfIdle /\ MoreIdle
    /\ DynStart

NextDyn ==
    \/ \E index \in 0..MaxIndex, name \in DynNames, T \in PodTypes :
          Field(index, name, T)

SpecDyn == InitDyn /\ [][NextDyn]_vars

\* a, b bytes 1, 2, 3, ...
Junk(n) == [i \in 1..n |-> i]

\* data segments for a blob of blen bytes: plain bytes; the magic among plain
\* bytes; the magic with a u32 before it that is 0, or the number of bytes from
\* the magic to the end of the file, or one more
DataSegments(blen) ==
    { Junk(a) : a \in 0..MaxPad }
    \cup { Junk(a) \o MTF_MAGIC \o Junk(b) : a \in 0..MaxPad, b \in {0, MaxPad} }
    \cup { Junk(a) \o to_le_bytes(s) \o MTF_MAGIC \o Junk(b) :
              a \in 0..MaxPad, b \in {0, MaxPad},
              s \in {0, blen + 8 + MaxPad, blen + 8, blen + 9} }

\* the descriptors of the blobs loaded: DynTypePool, a type whose name offset
\* lies past the string table, one whose name offset is the table's last
\* byte, and types with a field whose name offset lies past the table
BlobTypePool ==
    DynTypePool
    \cup { [name_offset |-> 99, size_bits |-> 64, fields |-> <<FX(0, 32), FY(32, 32)>>],
           [name_offset |-> 7, size_bits |-> 64, fields |-> <<FX(0, 32), FY(32, 32)>>],
           [name_offset |-> 0, size_bits |-> 64,
            fields |-> <<FX(0, 32), [name_offset |-> 8, offset_bits |-> 32,
                                     size_bits |-> 32]>>],
           [name_offset |-> 99, size_bits |-> 64,
            fields |-> <<[name_offset |-> 99, offset_bits |-> 0, size_bits |-> 32]>>] }

\* nothing written or loaded yet
FileStart ==
    /\ \E t \in BlobTypePool : fileBlob = write_mtf(<<t>>, DynStrings)
    /\ fileData \in DataSegments(Len(fileBlob))
    /\ fileBytes = <<>>
    /\ dynData = <<>>
    /\ dynDef = DynErr("None")
    /\ dynCall = NoFieldCall
    /\ dynRes = NoField
    /\ dynHandle = NoHandle
    /\ dynPre = <<>>
    /\ dynAlive = FALSE

\* write_slice_with_mtf(file, slice) for a slice whose bytes are fileData and
\* whose type blob is fileBlob
WriteSliceWithMtf ==
    /\ fileBytes = <<>>
    /\ fileBytes' = write_slice_with_mtf(fileData, fileBlob)
    /\ UNCHANGED <<dynData, dynDef, dynCall, dynRes, dynHandle, dynPre, dynAlive,
                   fileData, fileBlob>>
    /\ UNCHANGED notDynVars

\* DynamicContainer::from_file(path) on the file written
FromFile ==
    /\ fileBytes # <<>>
    /\ dynDef.tag = "None"
    /\ LET r == from_file(fileBytes)
       IN /\ dynData' = r.data
          /\ dynDef' = r.def
          /\ dynPre' = r.data
          /\ dynAlive' = (r.tag = "Ok")
    /\ UNCHANGED <<dynCall, dynRes, dynHandle, fileData, fileBlob, fileBytes>>
    /\ UNCHANGED notDynVars

\* DynamicContainer::from_raw(data, &blob) with the data segment and the blob
FromRaw ==
    /\ fileBytes = <<>>
    /\ dynDef.tag = "None"
    /\ dynData' = fileData
    /\ dynDef' = from_raw(fileBlob)
    /\ dynPre' = fileData
    /\ dynAlive' = (dynDef'.tag = "Ok")
    /\ UNCHANGED <<dynCall, dynRes, dynHandle, fileData, fileBlob, fileBytes>>
    /\ UNCHANGED notDynVars

InitFile ==
    /\ BitsIdle /\ N = 0 /\ PbIdle /\ PkIdle /\ MtfIdle /\ MoreIdle
    /\ FileStart

NextFile ==
    \/ WriteSliceWithMtf
    \/ FromFile
    \/ FromRaw

SpecFile == InitFile /\ [][NextFile]_vars

\* the types field_mut is asked for: u8, u16, u32, [u8; 4], [u8; 2]
HandleTypes ==
    { [size |-> 1, align |-> 1], [size |-> 2, align |-> 2], [size |-> 4, align |-> 4],
      [size |-> 4, align |-> 1], [size |-> 2, align |-> 1] }

\* one field_mut, a chain of calls on its handle, then field for the same
\* struct, name and type
NextDynMut ==
    \/ \E index \in 0..MaxIndex, name \in DynNames, T \in HandleTypes :
          FieldMut(index, name, T)
    \/ \E checks \in BOOLEAN : HandleSet(200, checks)
    \/ \E v \in {10, 250}, checks \in BOOLEAN : HandleAdd(v, checks)
    \/ \E checks \in BOOLEAN : HandleSub(4, checks)
    \/ \E f \in Closures, checks \in BOOLEAN : HandleApply(f, checks)
    \/ /\ dynHandle.live
       /\ Field(dynHandle.index, dynHandle.name, dynHandle.T)

SpecDynMut == InitDyn /\ [][NextDynMut]_vars

\* build_string_table of a list of strings, then lookups of its strings
InitStrTab ==
    /\ BitsIdle /\ N = 0 /\ PbIdle /\ PkIdle /\ MtfIdle /\ DynIdle /\ FcIdle /\ MkIdle /\ SvIdle /\ FpIdle
    /\ ItIdle
    /\ StStart

NextStrTab ==
    \/ BuildStringTable
    \/ \E i \in 1..MaxStrs : ReadString(i)

SpecStrTab == InitStrTab /\ [][NextStrTab]_vars


\* a FlagsContainer<N>: pushes, then set_mask, clear_mask and toggle_mask
InitFlags ==
    /\ BitsIdle /\ MtfIdle /\ DynIdle /\ MoreIdle
    /\ N \in 1..MaxN
    /\ PbStart /\ PkIdle

NextFlags ==
    \/ \E value \in ValuesOfWidth(N) : Push(value)
    \/ \E name \in MaskOps, index \in 0..MaxLen, mask \in Masks(N) :
          MaskOp(name, index, mask)

SpecFlags == InitFlags /\ [][NextFlags]_vars

\* merkle_root of a byte string with a chunk size
InitMerkle ==
    /\ BitsIdle /\ N = 0 /\ PbIdle /\ PkIdle /\ MtfIdle /\ DynIdle
    /\ StIdle /\ FcIdle /\ SvIdle /\ FpIdle /\ ItIdle
    /\ MkStart

NextMerkle ==
    \/ MerkleRoot

SpecMerkle == InitMerkle /\ [][NextMerkle]_vars

\* save of a slice of elements, one payload byte altered or none, load
InitSave ==
    /\ BitsIdle /\ N = 0 /\ PbIdle /\ PkIdle /\ MtfIdle /\ DynIdle
    /\ StIdle /\ FcIdle /\ MkIdle /\ FpIdle /\ ItIdle
    /\ SvStart

NextSave ==
    \/ Save
    \/ \E i \in 1..(MaxElems * 4), b \in {0, 1, 255} : Tamper(i, b)
    \/ \E size \in LoadSizes : Load(size)

SpecSave == InitSave /\ [][NextSave]_vars

\* a FixedPointContainerPacked<N, F>: pushes and gets
InitFixed ==
    /\ BitsIdle /\ PbIdle /\ MtfIdle /\ DynIdle
    /\ StIdle /\ FcIdle /\ MkIdle /\ SvIdle /\ ItIdle
    /\ N \in FpWidths
    /\ PkStart
    /\ FpIdle

NextFixed ==
    \/ \E raw \in FpRaws(N) : FpPush(raw)
    \/ \E index \in 0..MaxLen : FpGet(index)

SpecFixed == InitFixed /\ [][NextFixed]_vars

\* one chunked iterator over a slice, and calls of next
InitIter ==
    /\ BitsIdle /\ N = 0 /\ PbIdle /\ PkIdle /\ MtfIdle /\ DynIdle
    /\ StIdle /\ FcIdle /\ MkIdle /\ SvIdle /\ FpIdle
    /\ ItStart

NextIter ==
    \/ TryParseNext
    \/ FixedSizeNext

SpecIter == InitIter /\ [][NextIter]_vars

NextBits ==
    \/ \E o \in 0..(8 * BufLen - 1), w \in 1..MaxWidth :
          \E v \in ValuesFor(w) : SetBits(o, w, v)
    \/ GetBits

SpecBits == InitBits /\ [][NextBits]_vars

\* Bit number p (0-based, counted over the whole buffer) of buffer s
BufBit(s, p) == BitOf(s[(p \div 8) + 1], p % 8)

\* C1: after set_bits(buffer, o, w, v) with v < 2^w, get_bits(buffer, o, w)
\* returns v, for aligned and unaligned o and any prior buffer content.
C1_RoundTrip ==
    (bitPhase = "got" /\ bitCall.value < 2 ^ bitCall.bit_width)
        => bitGot = bitCall.value

\* C1 witness: an unaligned set that crosses a byte boundary over a non-zero
\* buffer has been read back.
C1_Witness ==
    /\ bitPhase = "got"
    /\ bitCall.value < 2 ^ bitCall.bit_width
    /\ bitCall.value > 0
    /\ bitCall.bit_offset % 8 # 0
    /\ (bitCall.bit_offset % 8) + bitCall.bit_width > 8
    /\ slicePre[1] = 255

\* C2: set_bits leaves every bit outside [o, o+w) unchanged, also for values
\* with bits set above bit w-1.
C2_Frame ==
    bitPhase \in {"set", "got"} =>
        \A p \in 0..(8 * Len(slice) - 1) :
            (p < bitCall.bit_offset \/ p >= bitCall.bit_offset + bitCall.bit_width)
                => BufBit(slice, p) = BufBit(slicePre, p)

\* C2 witness: a value with bits above bit w-1 was written strictly inside
\* the buffer, with neighbouring bits on both sides.
C2_Witness ==
    /\ bitPhase = "set"
    /\ bitCall.value >= 2 ^ bitCall.bit_width
    /\ bitCall.bit_offset > 0
    /\ bitCall.bit_offset + bitCall.bit_width < 8 * Len(slice)
    /\ slice # slicePre

\* ---------------------------------------------------------------------------
\* PackedBitsContainer and PackedBits properties (under SpecPacked)
\* ---------------------------------------------------------------------------
\* the indices get is asked for: every index below len and some past it
Indices == 0..(MaxLen + 1)

\* the last operation was a push of a value that does not fit in N bits
OverflowPush(op) == op.name = "push" /\ op.value > max_val(N)

\* C3: after pushing values that fit in N bits onto a new container, len() is
\* the number of pushes, get(i) is Some(i-th pushed value) for i < len() and
\* None for i >= len().
C3_PushGet ==
    (pbAlive \/ pbResult = "Panic") /\ onlyPush /\ ~OverflowPush(pbOp)
        => /\ pbResult = "Ok"
           /\ len = Len(pushed)
           /\ \A i \in Indices :
                 get(N, storage, len, i) =
                     IF i < Len(pushed) THEN Some(pushed[i + 1]) ELSE None

C5_WidthMismatch ==
    (pbOp.name = "from_storage" /\ pbOp.index # N)
        => /\ restored.tag = "InvalidN"
           /\ restored.expected = pbOp.index
           /\ restored.found = N

\* C6 as stated: push of a value above 2^N - 1 fails with the typed error
\* ValueOverflow and leaves the container unchanged.
C6_TypedOverflow ==
    /\ OverflowPush(pbOp) => /\ pbResult = "ValueOverflow"
                             /\ storage = pbPrev.storage
                             /\ len = pbPrev.len
    /\ OverflowPush(pkOp) => /\ pkResult = "ValueOverflow"
                             /\ pkData = pkPrev.data
                             /\ pkLen = pkPrev.len

\* C6 amended: push of a value above 2^N - 1 fails and leaves the container
\* unchanged (len, persisted count, every stored element); PackedBits::push
\* fails with ValueOverflow, PackedBitsContainer::push fails by panicking on
\* its assertion.
C6_OverflowRejected ==
    /\ OverflowPush(pbOp) => /\ pbResult = "Panic"
                             /\ storage = pbPrev.storage
                             /\ len = pbPrev.len
                             /\ from_le_bytes(SubSeq(storage, 9, 12)) = pbPrev.len
                             /\ \A i \in Indices :
                                   get(N, storage, len, i)
                                       = get(N, pbPrev.storage, pbPrev.len, i)
    /\ OverflowPush(pkOp) => /\ pkResult = "ValueOverflow"
                             /\ pkData = pkPrev.data
                             /\ pkLen = pkPrev.len
                             /\ \A i \in Indices :
                                   pk_get(N, pkData, pkLen, i)
                                       = pk_get(N, pkPrev.data, pkPrev.len, i)

\* C6 witness: an overflowing push was refused by a non-empty
\* PackedBitsContainer.
C6_Witness ==
    /\ OverflowPush(pbOp)
    /\ pbPrev.len >= 1
    /\ pbResult = "Panic"

\* C7: set(index, value) with index < len() and value fitting in N bits makes
\* get(index) return value and leaves len() and every other get(j) unchanged.
C7_SetFrame ==
    (pbOp.name = "set" /\ pbOp.index < pbPrev.len /\ pbOp.value <= max_val(N))
        => /\ pbResult = "Ok"
           /\ get(N, storage, len, pbOp.index) = Some(pbOp.value)
           /\ len = pbPrev.len
           /\ \A j \in Indices \ {pbOp.index} :
                 get(N, storage, len, j) = get(N, pbPrev.storage, pbPrev.len, j)

\* ---------------------------------------------------------------------------
\* MTF blob properties
\* ---------------------------------------------------------------------------
\* C8 (SpecMtf): read_mtf of the bytes write_mtf produced returns the same type
\* definitions, in the same order with the same fields, and the same string
\* table bytes.
C8_MtfRoundTrip ==
    (mtfPhase = "read" /\ mtfPristine)
        => /\ mtfRead.tag = "Ok"
           /\ mtfRead.types = mtfTypes
           /\ mtfRead.strings = mtfStrings

\* C8 witness: two types, the first with two different fields, and a
\* non-empty string table were written and read back.
C8_Witness ==
    /\ mtfPhase = "read"
    /\ mtfPristine
    /\ Len(mtfTypes) = 2
    /\ Len(mtfTypes[1].fields) = 2
    /\ mtfTypes[1].fields[1] # mtfTypes[1].fields[2]
    /\ mtfTypes[1] # mtfTypes[2]
    /\ mtfStrings # <<>>
    /\ mtfRead.tag = "Ok"

\* the input starts with the 4-byte magic
LeadingMagic(data) == Len(data) >= 4 /\ SubSeq(data, 1, 4) = MTF_MAGIC

\* the input carries a version field, and it is not 1
OtherVersion(data) == Len(data) >= 8 /\ u32_at(data, 4) # MTF_VERSION

\* C9 as stated (SpecMtfHeader): every input not starting with the magic fails
\* with InvalidMagic and every input with the magic and another version fails
\* with UnsupportedVersion, however short the input is.
C9_MagicVersionFirst ==
    mtfPhase = "read"
        => /\ ~LeadingMagic(mtfBlob) => mtfRead.tag = "InvalidMagic"
           /\ (LeadingMagic(mtfBlob) /\ OtherVersion(mtfBlob))
                 => mtfRead.tag = "UnsupportedVersion"

\* C9 amended (SpecMtfHeader): an input shorter than the 12-byte header fails
\* with UnexpectedEof; an input of at least 12 bytes fails with InvalidMagic
\* when it does not start with the magic, and with UnsupportedVersion (carrying
\* the version found) when it starts with the magic and has another version,
\* whatever follows.
C9_HeaderValidation ==
    mtfPhase = "read"
        => /\ Len(mtfBlob) < 12 => mtfRead.tag = "UnexpectedEof"
           /\ (Len(mtfBlob) >= 12 /\ ~LeadingMagic(mtfBlob))
                 => mtfRead.tag = "InvalidMagic"
           /\ (Len(mtfBlob) >= 12 /\ LeadingMagic(mtfBlob) /\ OtherVersion(mtfBlob))
                 => /\ mtfRead.tag = "UnsupportedVersion"
                    /\ mtfRead.version = u32_at(mtfBlob, 4)

\* C9 witness: an input of at least 12 bytes with both a wrong magic and a
\* wrong version, cut short of its type table, was read.
C9_Witness ==
    /\ mtfPhase = "read"
    /\ Len(mtfBlob) >= 12
    /\ Len(mtfBlob) < Len(write_mtf(mtfTypes, mtfStrings))
    /\ ~LeadingMagic(mtfBlob)
    /\ OtherVersion(mtfBlob)
    /\ mtfRead.tag = "InvalidMagic"

\* ---------------------------------------------------------------------------
\* DynamicContainer properties (under SpecDyn)
\* ---------------------------------------------------------------------------
\* the descriptor of the field the last call named
CalledField == dynDef.field_map[dynCall.name]

NameKnown == dynCall.name \in DOMAIN dynDef.field_map

Stride == (dynDef.type_def.size_bits + 7) \div 8

\* byte number k (from 0) of the range the claim names for the last call
RangeByte(k) ==
    dynData[dynCall.index * Stride + (CalledField.offset_bits \div 8) + k + 1]

\* C11 (SpecDyn): when field::<T>(index, name) succeeds, the value is the
\* little-endian interpretation of exactly the buffer bytes
\* [index*stride + field_byte_offset, + field_byte_size), with stride =
\* ceil(type size_bits / 8); for {x: bits 0..32, y: bits 32..64} over the bytes
\* 1..8, x of struct 0 reads 0x04030201.
C11_FieldValue ==
    (dynCall.made /\ dynRes.tag = "Some")
        => LET size == (CalledField.size_bits + 7) \div 8
           IN /\ Len(dynRes.bytes) = size
              /\ \A k \in 0..(size - 1) : dynRes.bytes[k + 1] = RangeByte(k)
              /\ size <= 4 =>
                    deref_uint(dynRes.bytes)
                        = (IF size > 0 THEN RangeByte(0) ELSE 0)
                          + (IF size > 1 THEN 256 * RangeByte(1) ELSE 0)
                          + (IF size > 2 THEN 65536 * RangeByte(2) ELSE 0)
                          + (IF size > 3 THEN 16777216 * RangeByte(3) ELSE 0)
              /\ ( /\ dynDef.type_def.size_bits = 64
                   /\ Len(dynData) = 8
                   /\ dynCall.index = 0
                   /\ dynCall.name = <<120>>
                   /\ dynCall.T = [size |-> 4, align |-> 4] )
                    => deref_uint(dynRes.bytes) = 67305985

\* C11 witness: a field at a non-zero byte offset of a struct other than the
\* first was read.
C11_Witness ==
    /\ dynCall.made
    /\ dynRes.tag = "Some"
    /\ dynCall.index >= 1
    /\ CalledField.offset_bits \div 8 > 0
    /\ Len(dynRes.bytes) >= 2

\* ---------------------------------------------------------------------------
\* FieldHandle properties (under SpecDynMut)
\* ---------------------------------------------------------------------------
\* what field::<T> returned for the handle's struct, name and type when
\* field_mut was called
HandleField ==
    field(dynPre, dynDef, dynHandle.index, dynHandle.name, dynHandle.T)

\* the largest value of the unsigned integer type T the model's integers hold
TopOf(T) == IF T.size >= 4 THEN 2147483647 ELSE (256 ^ T.size) - 1

\* the integer one call of the chain makes of x
IntOp(call, x) ==
    IF call.op = "set" THEN call.v
    ELSE IF call.op = "add" THEN x + call.v
    ELSE IF call.op = "sub" THEN x - call.v
    ELSE IF call.v = "double" THEN 2 * x
    ELSE 0

\* the integer the chain of calls makes of x, or -1 when a result leaves the
\* range 0..top
RECURSIVE ChainValue(_, _, _)
ChainValue(calls, x, top) ==
    IF calls = <<>> THEN x
    ELSE LET y == IntOp(Head(calls), x)
         IN IF y < 0 \/ y > top THEN -1
            ELSE ChainValue(Tail(calls), y, top)

\* C12 (SpecDynMut): for a present unsigned integer field holding S (u32, and
\* u8 and u16 alike), a chain of set, add, sub and apply calls on the handle of
\* field_mut whose results stay within the type's range does not panic, and a
\* later field read returns the value the chain computes from S: S+10 after
\* add(10), (S+10)*2 after add(10).apply(v -> v*2), S-k after sub(k), v after
\* set(v).
C12_HandleChain ==
    ( /\ dynHandle.made
      /\ IsInt(dynHandle.T)
      /\ dynHandle.T.size <= 4
      /\ HandleField.tag = "Some" )
        => LET S == deref_uint(HandleField.bytes)
               expect == ChainValue(dynHandle.ops, S, TopOf(dynHandle.T))
           IN expect >= 0
                => /\ dynAlive
                   /\ dynCall.made => /\ dynRes.tag = "Some"
                                       /\ deref_uint(dynRes.bytes) = expect

\* C12 witness: add(10).apply(v -> v*2) on a u32 field at a non-zero offset
\* was read back.
C12_Witness ==
    /\ dynCall.made
    /\ dynHandle.made
    /\ dynHandle.T = [size |-> 4, align |-> 4]
    /\ HandleField.tag = "Some"
    /\ dynHandle.ptr.at > 0
    /\ Len(dynHandle.ops) = 2
    /\ dynHandle.ops[1].op = "add"
    /\ dynHandle.ops[1].v = 10
    /\ dynHandle.ops[2].op = "apply"
    /\ dynHandle.ops[2].v = "double"
    /\ dynRes.tag = "Some"
    /\ deref_uint(dynRes.bytes) = (deref_uint(HandleField.bytes) + 10) * 2

\* the field the handle was asked for
HandleFieldDef == dynDef.field_map[dynHandle.name]

\* field_mut's validation fails: index out of range, unknown name, size or
\* alignment mismatch
FailsValidation ==
    \/ dynHandle.index >= dyn_len(dynPre, dynDef)
    \/ dynHandle.name \notin DOMAIN dynDef.field_map
    \/ /\ dynHandle.name \in DOMAIN dynDef.field_map
       /\ \/ (HandleFieldDef.size_bits + 7) \div 8 # dynHandle.T.size
          \/ (HandleFieldDef.offset_bits \div 8) % dynHandle.T.align # 0

\* C13 (SpecDynMut): when field_mut fails validation the handle is empty:
\* is_some() is false, get() is None, and any chain of set, add, sub and apply
\* leaves every byte of the buffer unchanged, calls no closure and does not
\* panic.
C13_EmptyHandle ==
    (dynHandle.made /\ FailsValidation)
        => /\ ~handle_is_some(dynHandle.ptr)
           /\ handle_get(dynHandle.ptr, dynData, dynHandle.T).tag = "None"
           /\ dynData = dynPre
           /\ dynHandle.invoked = 0
           /\ dynAlive

\* C13 witness: a handle for a known field of a struct in range, asked for
\* with a type of another size, took a chain of calls that ends in apply.
C13_Witness ==
    /\ dynHandle.made
    /\ dynHandle.index < dyn_len(dynPre, dynDef)
    /\ dynHandle.name \in DOMAIN dynDef.field_map
    /\ (HandleFieldDef.size_bits + 7) \div 8 # dynHandle.T.size
    /\ Len(dynHandle.ops) >= 2
    /\ dynHandle.ops[1].op = "set"
    /\ dynHandle.ops[Len(dynHandle.ops)].op = "apply"
    /\ dynData # <<>>

\* ---------------------------------------------------------------------------
\* from_file properties (under SpecFile)
\* ---------------------------------------------------------------------------
\* from_raw or from_file has returned
Loaded == dynDef.tag # "None"

\* from_file has returned
FileLoaded == Loaded /\ fileBytes # <<>>

\* position i of the file holds the magic and the u32 before it is the number
\* of bytes from i to the end of the file
SizedMagicAt(i) ==
    /\ i >= 4
    /\ i + 4 <= Len(fileBytes)
    /\ SubSeq(fileBytes, i + 1, i + 4) = MTF_MAGIC
    /\ u32_at(fileBytes, i - 4) = Len(fileBytes) - i

\* C14 as stated (SpecFile): for every data segment D and valid blob B,
\* from_file on D ++ u32_le(|B|) ++ B yields a container whose raw() is D and
\* whose descriptor is the one decoded from B.
C14_FromFile ==
    (FileLoaded /\ from_raw(fileBlob).tag = "Ok")
        => /\ dynDef = from_raw(fileBlob)
           /\ dynData = fileData

\* C14 amended (SpecFile): the same for every data segment D in which no
\* occurrence of the magic (also one running into the size field) has a u32
\* before it equal to the number of bytes from that magic to the end of the
\* file; this covers a magic inside D with any other four bytes before it.
C14_FromFileUnambiguous ==
    ( /\ FileLoaded
      /\ from_raw(fileBlob).tag = "Ok"
      /\ \A i \in 0..(Len(fileData) + 3) : ~SizedMagicAt(i) )
        => /\ dynDef = from_raw(fileBlob)
           /\ dynData = fileData

\* C14 witness: a file whose data segment holds the magic after a u32 that is
\* not the distance to the end of the file was loaded.
C14_Witness ==
    /\ FileLoaded
    /\ dynDef.tag = "Ok"
    /\ \E i \in 4..Len(fileData) :
          /\ i + 4 <= Len(fileData)
          /\ SubSeq(fileData, i + 1, i + 4) = MTF_MAGIC
          /\ u32_at(fileData, i - 4) > 0
    /\ \A i \in 0..(Len(fileData) + 3) : ~SizedMagicAt(i)
    /\ dynData = fileData

\* ---------------------------------------------------------------------------
\* PackedBitsContainer header, storage length, clear and from_storage
\* properties (under SpecPacked)
\* ---------------------------------------------------------------------------
\* C15: in every state of a container reachable from new_in_memory or
\* with_capacity by push, set and clear, the first 12 bytes of the storage are
\* the magic "PKBT", N and len() as little-endian u32, so from_storage on the
\* current bytes succeeds and reports the same len().
C15_HeaderInvariant ==
    (pbAlive /\ pbOrigin = "new")
        => /\ Len(storage) >= HEADER_SIZE
           /\ SubSeq(storage, 1, 4) = MAGIC
           /\ SubSeq(storage, 5, 8) = to_le_bytes(N)
           /\ SubSeq(storage, 9, 12) = to_le_bytes(len)
           /\ from_storage(N, storage).tag = "Ok"
           /\ from_storage(N, storage).len = len

\* C16: in every reachable state of a container, also one from_storage
\* returned for a buffer that passes header validation, the storage has at
\* least 12 + ceil(len() * N / 8) bytes and get(i) is Some for every i < len().
C16_StorageLength ==
    pbAlive
        => /\ Len(storage) >= HEADER_SIZE + div_ceil8(len * N)
           /\ \A i \in 0..(len - 1) : get(N, storage, len, i).tag = "Some"

\* C19: after clear(), len() is 0, is_empty() is true, get(i) is None for
\* every i and the storage is exactly 12 bytes long; pushes that follow read
\* back through get exactly the newly pushed values.
C19_Clear ==
    /\ pbOp.name = "clear"
          => /\ pbResult = "Ok"
             /\ len = 0
             /\ Len(storage) = HEADER_SIZE
             /\ \A i \in Indices : get(N, storage, len, i) = None
    /\ (afterClear = "yes" /\ ~OverflowPush(pbOp))
          => /\ pbResult = "Ok"
             /\ len = Len(pushed)
             /\ \A i \in Indices :
                   get(N, storage, len, i) =
                       IF i < Len(pushed) THEN Some(pushed[i + 1]) ELSE None

\* C20: from_storage fails with StorageTooSmall on a buffer of fewer than 12
\* bytes and with InvalidMagic on a buffer of at least 12 bytes whose bytes
\* 0..4 are not "PKBT", whatever the width and count fields hold; no container
\* is produced.
C20_FromStorageErrors ==
    pbOp.name = "open"
        => /\ Len(pbBuf) < HEADER_SIZE
                 => restored.tag = "StorageTooSmall" /\ ~pbAlive
           /\ (Len(pbBuf) >= HEADER_SIZE /\ SubSeq(pbBuf, 1, 4) # MAGIC)
                 => restored.tag = "InvalidMagic" /\ ~pbAlive

\* C20 witness: from_storage was given at least 12 bytes with a wrong magic,
\* a width other than N and a non-zero count.
C20_Witness ==
    /\ pbOp.name = "open"
    /\ Len(pbBuf) >= HEADER_SIZE
    /\ SubSeq(pbBuf, 1, 4) # MAGIC
    /\ from_le_bytes(SubSeq(pbBuf, 5, 8)) # N
    /\ from_le_bytes(SubSeq(pbBuf, 9, 12)) > 0
    /\ restored.tag = "InvalidMagic"

\* ---------------------------------------------------------------------------
\* Descriptor validation properties (under SpecFile)
\* ---------------------------------------------------------------------------
\* fields f and g share a bit
Overlap(f, g) ==
    /\ f.size_bits > 0
    /\ g.size_bits > 0
    /\ f.offset_bits < g.offset_bits + g.size_bits
    /\ g.offset_bits < f.offset_bits + f.size_bits

\* no two fields of the type overlap and every field lies within size_bits
WellFormed(t) ==
    /\ \A i, j \in 1..Len(t.fields) : i # j => ~Overlap(t.fields[i], t.fields[j])
    /\ \A i \in 1..Len(t.fields) :
          t.fields[i].offset_bits + t.fields[i].size_bits <= t.size_bits

\* C17 (SpecFile): a blob whose type has two fields with overlapping bit
\* ranges, or a field with offset_bits + size_bits greater than the type's
\* size_bits, is rejected: read_mtf or from_raw returns an error and no
\* container is produced.
C17_MalformedRejected ==
    (Loaded /\ ~WellFormed(read_mtf(fileBlob).types[1]))
        => dynDef.tag # "Ok"

\* C18 (SpecFile): whenever from_raw succeeds, the type's name_offset and
\* every field's name_offset point at a NUL-terminated string inside the
\* string table, and type_name() returns no error.
C18_EagerStrings ==
    (Loaded /\ dynDef.tag = "Ok")
        => /\ type_name(dynDef).tag = "Ok"
           /\ \A i \in 1..Len(dynDef.type_def.fields) :
                 read_string(dynDef.strings,
                             dynDef.type_def.fields[i].name_offset).tag = "Ok"

\* ---------------------------------------------------------------------------
\* MTF blob properties: truncated input
\* ---------------------------------------------------------------------------
\* the input is a proper prefix of what write_mtf produced
ProperPrefix ==
    /\ ~mtfPristine
    /\ Len(mtfBlob) < Len(write_mtf(mtfTypes, mtfStrings))
    /\ mtfBlob = SubSeq(write_mtf(mtfTypes, mtfStrings), 1, Len(mtfBlob))

\* C21 (SpecMtf): read_mtf of every proper prefix of a blob write_mtf produced
\* returns UnexpectedEof, with no type definitions and no string table.
C21_PrefixEof ==
    (mtfPhase = "read" /\ ProperPrefix)
        => /\ mtfRead.tag = "UnexpectedEof"
           /\ mtfRead.types = <<>>
           /\ mtfRead.strings = <<>>

\* C21 witness: a blob of two types and a non-empty string table, cut inside
\* the string table (all type records and the table length are present), was
\* read and gave UnexpectedEof.
C21_Witness ==
    /\ mtfPhase = "read"
    /\ ProperPrefix
    /\ Len(mtfTypes) = 2
    /\ mtfStrings # <<>>
    /\ Len(mtfBlob) > Len(write_mtf(mtfTypes, mtfStrings)) - Len(mtfStrings)
    /\ mtfRead.tag = "UnexpectedEof"

\* ---------------------------------------------------------------------------
\* String table properties
\* ---------------------------------------------------------------------------
\* the strings from number i on, each followed by one zero byte
RECURSIVE NulTerminated(_, _)
NulTerminated(strings, i) ==
    IF i > Len(strings) THEN <<>>
    ELSE (strings[i] \o <<0>>) \o NulTerminated(strings, i + 1)

\* C22 (SpecStrTab): the table build_string_table returns is the concatenation
\* of the strings, each followed by one zero byte, and read_string at the
\* offset the map holds for a string of the list returns that string.
C22_StringTable ==
    /\ stPhase \in {"built", "read"} => stTable = NulTerminated(stList, 1)
    /\ stPhase = "read" => stRead = [tag |-> "Ok", str |-> stKey]

\* C22 witness: a list holding the same non-empty string first and last, with
\* another string between, was built and the repeated string was read back from
\* the offset of its last occurrence.
C22_Witness ==
    /\ stPhase = "read"
    /\ Len(stList) = 3
    /\ stList[1] = stList[3]
    /\ stList[1] # stList[2]
    /\ stList[1] # <<>>
    /\ stKey = stList[1]
    /\ stOffsets[stKey] = Len(stList[1]) + Len(stList[2]) + 2
    /\ stRead.tag = "Ok"

\* ---------------------------------------------------------------------------
\* field and field_mut side by side (under SpecDynMut)
\* ---------------------------------------------------------------------------
\* C23 (SpecDynMut): field_mut validates as field does: the handle of
\* field_mut::<T>(index, name) is present exactly when field::<T>(index, name)
\* on the same container is Some, and then the handle's get() covers the same
\* value.
C23_SameValidation ==
    dynHandle.made
        => /\ handle_is_some(dynHandle.ptr) <=> HandleField.tag = "Some"
           /\ handle_is_some(dynHandle.ptr)
                 => handle_get(dynHandle.ptr, dynPre, dynHandle.T).bytes
                      = HandleField.bytes

\* the byte offset in the buffer of the field of struct number index
AbsoluteOffset(index, name) ==
    index * dynDef.struct_size + (dynDef.field_map[name].offset_bits \div 8)

\* C24 (SpecDynMut): whenever field or field_mut returns a present value, the
\* byte offset index * stride + field_byte_offset of the range it reinterprets
\* is a multiple of align_of::<T>().
C24_AbsoluteAlignment ==
    /\ (dynCall.made /\ dynRes.tag = "Some")
          => AbsoluteOffset(dynCall.index, dynCall.name) % dynCall.T.align = 0
    /\ (dynHandle.made /\ handle_is_some(dynHandle.ptr))
          => /\ dynHandle.ptr.at = AbsoluteOffset(dynHandle.index, dynHandle.name)
             /\ dynHandle.ptr.at % dynHandle.T.align = 0

\* ---------------------------------------------------------------------------
\* PackedBitsContainer capacity (under SpecPacked)
\* ---------------------------------------------------------------------------
\* C25 (SpecPacked): a container made by new_in_memory or with_capacity(c)
\* starts with len() = 0 and, for with_capacity, capacity() >= c; after every
\* push capacity() >= len(); and no push and no set leaves the storage shorter
\* than it found it.
C25_Capacity ==
    pbOrigin = "new"
        => /\ pbOp.name \in {"new", "with_capacity"} => len = 0
           /\ pbOp.name = "with_capacity" => capacity(N, storage) >= pbOp.index
           /\ pbOp.name = "push" => capacity(N, storage) >= len
           /\ pbOp.name \in {"push", "set"} => Len(storage) >= Len(pbPrev.storage)

\* C25 witness: the second push on a container of 2-bit elements succeeded
\* and the storage, header and one data byte, has room for more elements than
\* it holds.
C25_Witness ==
    /\ pbOrigin = "new"
    /\ pbOp.name = "push"
    /\ pbResult = "Ok"
    /\ N = 2
    /\ len = 2
    /\ Len(storage) = HEADER_SIZE + 1
    /\ capacity(N, storage) = 4
    /\ afterClear = "no"

\* ---------------------------------------------------------------------------
\* FlagsContainer properties (under SpecFlags)
\* ---------------------------------------------------------------------------
\* the element at index before the last operation
OldFlags(index) == get(N, pbPrev.storage, pbPrev.len, index)

\* C26 (SpecFlags): for index < len(), set_mask makes get(index) old | mask,
\* clear_mask old & !mask and toggle_mask old ^ mask, each returning Ok and
\* leaving len() and every other element as they were; for index >= len()
\* each returns an error and changes nothing.
C26_MaskOps ==
    pbOp.name \in MaskOps
        => /\ pbOp.index < pbPrev.len
                => /\ pbResult = "Ok"
                   /\ get(N, storage, len, pbOp.index)
                        = Some(mask_value(pbOp.name, OldFlags(pbOp.index).value,
                                          pbOp.value))
                   /\ len = pbPrev.len
                   /\ \A j \in 0..(MaxLen - 1) :
                         (j < len /\ j # pbOp.index)
                             => get(N, storage, len, j) = OldFlags(j)
           /\ pbOp.index >= pbPrev.len
                => /\ pbResult = "StorageTooSmall"
                   /\ storage = pbPrev.storage
                   /\ len = pbPrev.len

\* ---------------------------------------------------------------------------
\* merkle_root properties (under SpecMerkle)
\* ---------------------------------------------------------------------------
\* one level of the standard tree: the parents of the nodes taken in pairs,
\* the last node paired with itself when it has no sibling
RECURSIVE Parents(_)
Parents(nodes) ==
    IF nodes = <<>> THEN <<>>
    ELSE IF Len(nodes) = 1 THEN <<hash_parent(nodes[1], nodes[1])>>
    ELSE <<hash_parent(nodes[1], nodes[2])>> \o Parents(SubSeq(nodes, 3, Len(nodes)))

\* the root of the standard binary Merkle tree over the leaf hashes
RECURSIVE TreeRoot(_)
TreeRoot(nodes) ==
    IF Len(nodes) = 1 THEN nodes[1] ELSE TreeRoot(Parents(nodes))

LeafHashes(data, chunk_size) ==
    LET cs == chunks(data, chunk_size)
    IN [i \in 1..Len(cs) |-> hash_leaf(cs[i])]

\* C27 (SpecMerkle): merkle_root(data, chunk_size) is the root of the standard
\* binary Merkle tree over the leaf hashes of the consecutive chunks, a level
\* with an odd number of nodes duplicating its last hash; for empty data it is
\* the leaf hash of the empty byte string.
C27_MerkleRoot ==
    (mkPhase = "done" /\ mkChunk > 0)
        => /\ mkRoot.tag = "Ok"
           /\ mkRoot.hash = IF mkData = <<>> THEN hash_leaf(<<>>)
                            ELSE TreeRoot(LeafHashes(mkData, mkChunk))

\* ---------------------------------------------------------------------------
\* save / load properties (under SpecSave)
\* ---------------------------------------------------------------------------
\* the payload differs from the one save wrote
PayloadAltered == svImage.payload # cast_slice(svElems)

\* the element_size field of the header
SavedElementSize == svImage.head[7] + 256 * svImage.head[8]

\* C28 (SpecSave): load of the bytes save wrote returns the elements saved;
\* with a payload byte altered it returns HashMismatch; with an element type
\* of another size than the saved element_size it returns InvalidVersion
\* without reading any payload.
C28_LoadAccepts ==
    svPhase = "loaded"
        => /\ (svLoadT = SavedElementSize /\ ~PayloadAltered)
                => /\ svLoaded.tag = "Ok"
                   /\ svLoaded.data = svElems
           /\ (svLoadT = SavedElementSize /\ PayloadAltered)
                => svLoaded.tag = "HashMismatch"
           /\ svLoadT # SavedElementSize
                => /\ svLoaded.tag = "InvalidVersion"
                   /\ svLoaded.read = 0

\* C28 witness: an image of two different u32 elements with one payload byte
\* altered was loaded as u32 and refused with HashMismatch.
C28_Witness ==
    /\ svPhase = "loaded"
    /\ svT = 4
    /\ svLoadT = 4
    /\ Len(svElems) = 2
    /\ svElems[1] # svElems[2]
    /\ ~svClean
    /\ PayloadAltered
    /\ svLoaded.tag = "HashMismatch"

\* ---------------------------------------------------------------------------
\* Packed fixed-point container properties (under SpecFixed)
\* ---------------------------------------------------------------------------
\* raw lies in the N-bit two's-complement range
InRange(raw) == raw >= MIN_INT(N) /\ raw <= MAX_INT(N)

\* C29 (SpecFixed): for every width N (32 included) a raw value in the N-bit
\* two's-complement range that was pushed is what get returns at its index,
\* whatever was pushed before and after it (fpGot is the get made on the
\* container as it is).
C29_FixedRoundTrip ==
    (fpGot.made /\ fpGot.index < Len(fpRaws) /\ InRange(fpRaws[fpGot.index + 1]))
        => /\ fpGot.tag = "Some"
           /\ fpGot.raw = fpRaws[fpGot.index + 1]

\* C29 witness: with N = 32 the most negative raw was pushed second, after a
\* positive one, and read back; and the same for N = 31, where the value
\* starts at bit 7 of a byte and spans five bytes.
C29_Witness ==
    /\ N \in {31, 32}
    /\ fpGot.made
    /\ fpGot.index = 1
    /\ Len(fpRaws) >= 2
    /\ fpRaws[1] > 0
    /\ fpRaws[2] = MIN_INT(N)
    /\ fpGot.tag = "Some"
    /\ fpGot.raw < 0

\* ---------------------------------------------------------------------------
\* Chunked parser properties (under SpecIter)
\* ---------------------------------------------------------------------------
\* the parser's results for the first k whole chunks of the slice
FirstChunks(k) ==
    [i \in 1..k |-> parse(itParser,
                          SubSeq(itBytes, (i - 1) * itChunk + 1, i * itChunk))]

\* C30 (SpecIter): for every slice and every chunk size the iteration ends,
\* next returning None no later than its call number len + 1; the items
\* yielded are the parser's results for the consecutive chunks, in order;
\* when None has been returned they are floor(len / chunk_size) in number, the
\* trailing partial chunk left out, and every later call returns None too.
C30_ChunkedIteration ==
    itKind # "idle"
        => /\ itCalls > Len(itBytes) => itNones > 0
           /\ itItems = FirstChunks(Len(itItems))
           /\ itNones > 0
                => /\ itChunk > 0
                   /\ Len(itItems) = Len(itBytes) \div itChunk
                   /\ itCalls = Len(itItems) + itNones

====
